---- MODULE Spec2Model ----
(***************************************************************************)
(* Model of the funnel widget of the admin dashboard                       *)
(* (src/src/components/FunnelWidget.tsx): the stage aggregator             *)
(* consolidateStages and the FunnelWidget render that calls it.            *)
(*                                                                         *)
(* JavaScript values are represented as follows.                           *)
(*  - a string is a TLA+ string;                                           *)
(*  - "T | undefined" is a sequence of length at most one: <<>> is         *)
(*    undefined, <<v>> is the value v;                                     *)
(*  - an object lives in the heap, a sequence of records indexed by its    *)
(*    reference, so that two arrays can share an object and a write        *)
(*    through one is seen through the other;                               *)
(*  - a value that is not a string but is used as a property key or as a   *)
(*    stage name (a function inherited from Object.prototype) is           *)
(*    represented by the string JavaScript converts it to.                 *)
(***************************************************************************)
EXTENDS Integers, Sequences, FiniteSets, TLC

\* ------------------------------------------------------------------ bounds
\* Longest stages array a response carries.
MaxLen == 3
\* Largest stage count drawn (counts range over 0..MaxCount).
MaxCount == 1
\* Longest stages array of a response when the funnel is compared with the
\* previous period.
MaxCompared == 1
\* How many tokens the Turnstile widget issues.
MaxTokens == 2
\* How many requests the client sends.
MaxRequests == 2
\* How many requests of a page are in flight at once.
MaxInFlight == 3
\* How many times the user changes the date range, the tab and the page of
\* the analytics page.
MaxRangeChanges == 1
MaxTabChanges == 1
MaxPageChanges == 2
\* How many pages of sessions the server has.
MaxPages == 3

\* ------------------------------------------------------------------ helpers
Min(S) == CHOOSE x \in S : \A y \in S : x <= y

\* The element of a one-element set.  The(\{ e(x) : x \in \{v\} \}) is e(v)
\* with v computed once: it stands for a local constant of the code.
The(S) == CHOOSE x \in S : TRUE

\* String.prototype.includes: t occurs in s as a contiguous substring
\* (case-sensitive, no trimming; the empty string occurs in every string).
includes(s, t) ==
  \E i \in 1..(Len(s) - Len(t) + 1) : SubSeq(s, i, i + Len(t) - 1) = t

\* ------------------------------------------------------------------ tables
\* Mutant of stageMapping: 'Stripe Redirect' is left unconsolidated.
stageMappingUnconsolidated ==
  << <<"Button Clicks",   "Button Clicks">>,
     <<"Started",         "Plan Selected">>,
     <<"Plan Selected",   "Plan Selected">>,
     <<"Account Created", "Account Setup">>,
     <<"Company Info",    "Account Setup">>,
     <<"Stripe Redirect", "Stripe Redirect">>,
     <<"Provisioned",     "Provisioned">> >>

\* The mapping table, as Object.entries lists it: <<key, value>> in the
\* declared order.
stageMapping ==
  << <<"Button Clicks",   "Button Clicks">>,
     <<"Started",         "Plan Selected">>,
     <<"Plan Selected",   "Plan Selected">>,
     <<"Account Created", "Account Setup">>,
     <<"Company Info",    "Account Setup">>,
     <<"Stripe Redirect", "Stripe Checkout">>,
     <<"Provisioned",     "Provisioned">> >>

\* Properties every object literal inherits from Object.prototype (three of
\* them), with the string each inherited value converts to.  stageMapping and
\* consolidated are object literals, so a bracket lookup finds these too.
ObjectPrototype ==
  << <<"constructor", "function Object() { [native code] }">>,
     <<"toString",    "function toString() { [native code] }">>,
     <<"valueOf",     "function valueOf() { [native code] }">> >>

\* The own properties of an object literal are <<key, value>> pairs in
\* insertion order.  OwnIndex is where the property called name is, if any.
OwnIndex(own, name) == { k \in DOMAIN own : own[k][1] = name }

Inherited(name) == OwnIndex(ObjectPrototype, name) # {}

\* obj[name] on an object literal with the own properties `own`: the own
\* property, else the inherited one, else undefined.
Lookup(own, name) ==
  IF OwnIndex(own, name) # {}
    THEN << own[Min(OwnIndex(own, name))][2] >>
    ELSE IF Inherited(name)
      THEN << ObjectPrototype[Min(OwnIndex(ObjectPrototype, name))][2] >>
      ELSE << >>

\* Mutant of SetProperty: the value is pushed as a new entry even when the
\* key is present.
SetPropertyPushed(own, name, value) == Append(own, <<name, value>>)

\* obj[name] = value: an own property keeps its place, a new one goes last.
SetProperty(own, name, value) ==
  IF OwnIndex(own, name) # {}
    THEN [own EXCEPT ![Min(OwnIndex(own, name))] = <<name, value>>]
    ELSE Append(own, <<name, value>>)

\* Mutant of PartialKeys: only stage.name.includes(key) is tried.
PartialKeysContained(name) ==
  { k \in DOMAIN stageMapping : includes(name, stageMapping[k][1]) }

\* The keys the partial matching accepts for a name: those the name contains
\* and those that contain the name.
PartialKeys(name) ==
  { k \in DOMAIN stageMapping :
      includes(name, stageMapping[k][1]) \/ includes(stageMapping[k][1], name) }

\* Mutant of mappedName: the loop has no break, so the last accepted key wins.
mappedNameLastKey(name) ==
  IF Lookup(stageMapping, name) # << >>
    THEN Lookup(stageMapping, name)
    ELSE The({ IF partial # {}
                 THEN << stageMapping[CHOOSE k \in partial :
                                        \A m \in partial : m <= k][2] >>
                 ELSE << >>
               : partial \in { PartialKeys(name) } })

\* let mappedName = stageMapping[stage.name], then the loop over
\* Object.entries(stageMapping) that stops at the first accepted key.
mappedName(name) ==
  IF Lookup(stageMapping, name) # << >>
    THEN Lookup(stageMapping, name)
    ELSE The({ IF partial # {} THEN << stageMapping[Min(partial)][2] >>
                               ELSE << >>
               : partial \in { PartialKeys(name) } })

\* Mutant of newName: the stage keeps its raw name.
newNameRaw(name) == name

\* const newName = mappedName || stage.name
newName(name) ==
  The({ IF mapped # << >> THEN mapped[1] ELSE name
        : mapped \in { mappedName(name) } })

\* ------------------------------------------------------------------ stages
\* A FunnelStage object: dropoff is optional (<<>> when the field is absent).
Stage(n, c, p, d) == [name |-> n, count |-> c, percentage |-> p, dropoff |-> d]

\* Mutant of Spread: Object.assign(stage, { name: newName }), which renames
\* the caller's object and returns it.
SpreadInPlace(heap, r, name) ==
  [heap |-> [heap EXCEPT ![r].name = name], ref |-> r]

\* { ...stage, name: newName }: a new object with the fields of the stage at
\* reference r and the given name, as [heap, ref]: the heap with the new
\* object and the reference of the new object.
Spread(heap, r, name) ==
  [heap |-> Append(heap, [heap[r] EXCEPT !.name = name]),
   ref  |-> Len(heap) + 1]

\* Mutant of Replaces: a later stage also wins a tie.
ReplacesOnTie(stage, kept) == stage.count >= kept.count

\* stage.count > consolidated[newName].count
Replaces(stage, kept) == stage.count > kept.count

\* Mutant of visitStage: consolidated is keyed by the raw stage.name while
\* the stored object is still renamed to newName.
visitStageKeyedByRawName(heap, consolidated, r) ==
  The({ IF OwnIndex(consolidated, heap[r].name) # {}
             /\ ~Replaces(heap[r],
                          heap[consolidated[
                                 Min(OwnIndex(consolidated, heap[r].name))][2]])
          THEN [heap |-> heap, consolidated |-> consolidated]
          ELSE IF OwnIndex(consolidated, heap[r].name) = {}
                  /\ Inherited(heap[r].name)
            THEN [heap |-> heap, consolidated |-> consolidated]
            ELSE [heap |-> Spread(heap, r, name).heap,
                  consolidated |->
                    SetProperty(consolidated, heap[r].name,
                                Spread(heap, r, name).ref)]
        : name \in { newName(heap[r].name) } })

\* The body of stages.forEach for the stage at reference r, as
\* [heap, consolidated].  consolidated holds <<key, reference>> pairs.  When
\* consolidated[newName] is an inherited function it is truthy and has no
\* count, so the comparison is false and nothing is stored.
visitStage(heap, consolidated, r) ==
  The({ IF OwnIndex(consolidated, name) # {}
             /\ ~Replaces(heap[r],
                          heap[consolidated[Min(OwnIndex(consolidated, name))][2]])
          THEN [heap |-> heap, consolidated |-> consolidated]
          ELSE IF OwnIndex(consolidated, name) = {} /\ Inherited(name)
            THEN [heap |-> heap, consolidated |-> consolidated]
            ELSE [heap |-> Spread(heap, r, name).heap,
                  consolidated |->
                    SetProperty(consolidated, name, Spread(heap, r, name).ref)]
        : name \in { newName(heap[r].name) } })

\* stages.forEach(...): the state after the stages at positions i.. have been
\* visited.
RECURSIVE forEachStage(_, _, _, _)
forEachStage(heap, stages, i, consolidated) ==
  IF i > Len(stages)
    THEN [heap |-> heap, consolidated |-> consolidated]
    ELSE The({ forEachStage(visited.heap, stages, i + 1, visited.consolidated)
               : visited \in { visitStage(heap, consolidated, stages[i]) } })

\* Object.values(consolidated): the references in property order.
ObjectValues(consolidated) ==
  [k \in DOMAIN consolidated |-> consolidated[k][2]]

\* Mutant of SortInsert: the comparator a.percentage - b.percentage.
SortInsertAscending(heap, sorted, r) ==
  The({ SubSeq(sorted, 1, n) \o <<r>> \o SubSeq(sorted, n + 1, Len(sorted))
        : n \in { Cardinality({ k \in DOMAIN sorted :
                     heap[sorted[k]].percentage <= heap[r].percentage }) } })

\* Array.prototype.sort((a, b) => b.percentage - a.percentage): the sort is
\* stable, so an element goes after every element whose percentage is not
\* smaller than its own.
SortInsert(heap, sorted, r) ==
  The({ SubSeq(sorted, 1, n) \o <<r>> \o SubSeq(sorted, n + 1, Len(sorted))
        : n \in { Cardinality({ k \in DOMAIN sorted :
                     heap[sorted[k]].percentage >= heap[r].percentage }) } })

RECURSIVE sortByPercentage(_, _, _)
sortByPercentage(heap, arr, sorted) ==
  IF arr = << >>
    THEN sorted
    ELSE The({ sortByPercentage(heap, Tail(arr), inserted)
               : inserted \in { SortInsert(heap, sorted, Head(arr)) } })

\* Mutant of Dropoff: the difference to the entry stage, own count first.
DropoffToEntry(heap, result, i) ==
  IF i > 1 THEN heap[result[i]].count - heap[result[1]].count ELSE 0

\* Mutant of Dropoff: the difference is taken the other way round.
DropoffReversed(heap, result, i) ==
  IF i > 1 THEN heap[result[i]].count - heap[result[i - 1]].count ELSE 0

\* result.forEach((stage, i) => ...): the drop-off written to the object at
\* position i of result.  Counts are not written by the loop, so the order of
\* the visits does not matter.
Dropoff(heap, result, i) ==
  IF i > 1 THEN heap[result[i - 1]].count - heap[result[i]].count ELSE 0

recalculateDropoffs(heap, result) ==
  [r \in DOMAIN heap |->
     IF \E i \in DOMAIN result : result[i] = r
       THEN [heap[r] EXCEPT !.dropoff =
               << Dropoff(heap, result,
                          Min({ i \in DOMAIN result : result[i] = r })) >>]
       ELSE heap[r]]

\* consolidateStages(stages): the heap after the call and the returned array.
consolidateStages(heap, stages) ==
  The({ The({ [heap   |-> recalculateDropoffs(grouped.heap, result),
               result |-> result]
              : result \in { sortByPercentage(
                               grouped.heap,
                               ObjectValues(grouped.consolidated), << >>) } })
        : grouped \in { forEachStage(heap, stages, 1, << >>) } })

\* A stage name that is no string: one of the functions inherited from
\* Object.prototype, which has no includes method.
NotAString(name) ==
  \E k \in DOMAIN ObjectPrototype : ObjectPrototype[k][2] = name

\* consolidateStages(result) for a result of consolidateStages, as
\* [threw, names].  A name that is a function is no key of stageMapping, so
\* the partial matching is entered and stage.name.includes(key) throws a
\* TypeError; otherwise names is the set of the names returned.
consolidateAgain(heap, result) ==
  IF \E i \in DOMAIN result : NotAString(heap[result[i]].name)
    THEN [threw |-> TRUE, names |-> {}]
    ELSE The({ [threw |-> FALSE,
                names |-> { again.heap[again.result[i]].name
                            : i \in DOMAIN again.result }]
               : again \in { consolidateStages(heap, result) } })

\* ----------------------------------------------------------------- numbers
\* A JavaScript number that results from dividing integers is the pair
\* [num, den]: num / den when den > 0, and when den = 0 the value a division
\* by zero gives: Infinity (num = 1), -Infinity (num = -1) or NaN (num = 0).
Number(n, d) == [num |-> n, den |-> d]

IsFinite(x) == x.den # 0

Sign(a) == IF a > 0 THEN 1 ELSE IF a < 0 THEN -1 ELSE 0

\* a / b for integers a and b.
Divide(a, b) ==
  IF b > 0 THEN Number(a, b)
  ELSE IF b < 0 THEN Number(-a, -b)
  ELSE Number(Sign(a), 0)

\* x * k for a positive integer k.
Times(x, k) == IF IsFinite(x) THEN Number(x.num * k, x.den) ELSE x

\* Math.abs(x)
Abs(x) == Number(IF x.num < 0 THEN -x.num ELSE x.num, x.den)

\* x > k for an integer k: Infinity is greater, NaN and -Infinity are not.
GreaterThan(x, k) ==
  IF IsFinite(x) THEN x.num > k * x.den ELSE x.num > 0

\* ----------------------------------------------------------------- display
\* getStageConversionRate(currentStage, prevStageIndex), with the zero-based
\* index the code passes.
getStageConversionRate(heap, consolidated, currentStage, prevStageIndex) ==
  IF prevStageIndex < 0
    THEN Number(100, 1)
    ELSE IF heap[consolidated[prevStageIndex + 1]].count > 0
      THEN Times(Divide(currentStage.count,
                        heap[consolidated[prevStageIndex + 1]].count), 100)
      ELSE Number(0, 1)

\* getStageChange(current): null (<<>>) without a previous snapshot or
\* without a stage of that name in it, else the change against the first
\* such stage.
getStageChange(heap, previous, current) ==
  IF previous = << >>
    THEN << >>
    ELSE IF \A k \in DOMAIN previous[1] :
              heap[previous[1][k]].name # current.name
      THEN << >>
      ELSE The({ << [change        |-> Abs(change),
                     isImprovement |-> GreaterThan(change, 0)] >>
                 : change \in
                     { Times(Divide(
                         current.count
                           - heap[previous[1][Min({ k \in DOMAIN previous[1] :
                               heap[previous[1][k]].name = current.name })]]
                               .count,
                         heap[previous[1][Min({ k \in DOMAIN previous[1] :
                               heap[previous[1][k]].name = current.name })]]
                               .count), 100) } })

\* stage.dropoff || 0
DropoffCount(stage) ==
  IF stage.dropoff = << >> THEN 0 ELSE stage.dropoff[1]

\* stage.count > 0 ? (dropoffCount / stage.count) * 100 : 0
DropoffRate(stage) ==
  IF stage.count > 0
    THEN Times(Divide(DropoffCount(stage), stage.count), 100)
    ELSE Number(0, 1)

\* The values the callback of consolidatedStages.map computes for the stage
\* at position i (one-based; the code's index is i - 1).
Row(heap, consolidated, previous, i) ==
  The({ [isLast              |-> i = Len(consolidated),
         dropoffCount        |-> DropoffCount(heap[consolidated[i]]),
         dropoffRate         |-> rate,
         isSignificantDrop   |-> GreaterThan(rate, 25),
         isCriticalDrop      |-> GreaterThan(rate, 40),
         stageConversionRate |->
           getStageConversionRate(heap, consolidated, heap[consolidated[i]],
                                  i - 2),
         stageChange         |->
           getStageChange(heap, previous, heap[consolidated[i]])]
        : rate \in { DropoffRate(heap[consolidated[i]]) } })

\* ------------------------------------------------------------------ inputs
\* Stage names drawn for the aggregator: the seven mapping keys, names that
\* contain a key, names contained in a key (the empty name among them),
\* canonical names that are no key, unrelated names, and the name of a
\* property inherited from Object.prototype.
RawNames ==
  { "Button Clicks", "Started", "Plan Selected", "Account Created",
    "Company Info", "Stripe Redirect", "Provisioned",
    "Stripe Redirect Page", "Started Provisioned", "Start", "",
    "Account Setup", "Stripe Checkout", "Custom Step", "constructor" }

\* The names of the stages whose counts and percentages are drawn freely:
\* three names of three different buckets.
CoreNames == { "Started", "Provisioned", "Custom Step" }

Percentages == { 50, 100 }

\* A funnel as the API usually reports it: the count falls from stage to
\* stage and the percentage is the count's share of the entry stage.
FunnelCount(i) == MaxLen + 1 - i
FunnelPercentage(i) == (100 * FunnelCount(i)) \div FunnelCount(1)

\* ------------------------------------------------------------ API client
BackendUrl == "https://itsm-backend.joshua-r-klimek.workers.dev"

\* Mutant of getApiBaseUrl: the production test is hostname.includes(...).
getApiBaseUrlContaining(w) ==
  IF w # << >>
    THEN IF includes(w[1].hostname, "admin.forge-itsm.com")
      THEN w[1].protocol \o "//" \o w[1].hostname
      ELSE BackendUrl
    ELSE BackendUrl

\* getApiBaseUrl(), with w the window: <<>> when typeof window is
\* 'undefined', else <<location>> with the location's protocol and hostname.
getApiBaseUrl(w) ==
  IF w # << >>
    THEN IF w[1].hostname = "admin.forge-itsm.com"
      THEN w[1].protocol \o "//" \o w[1].hostname
      ELSE IF w[1].hostname = "localhost"
                \/ includes(w[1].hostname, "pages.dev")
        THEN BackendUrl
        ELSE BackendUrl
    ELSE BackendUrl

\* The locations the app is served from or opened at: production, the
\* development server, the Pages deployment and its previews, and hostnames
\* that contain the production hostname or "pages.dev" without being them.
Hostnames ==
  { "admin.forge-itsm.com", "localhost", "127.0.0.1",
    "forge-itsm-admin-frontend.pages.dev",
    "preview.forge-itsm-admin-frontend.pages.dev", "pages.dev.example.com",
    "forge-itsm.com", "www.forge-itsm.com", "xadmin.forge-itsm.com",
    "admin.forge-itsm.com.example.com", "admin.forge-itsm.com.", "" }

Protocols == { "http:", "https:" }

Windows ==
  { << >> } \cup { << [protocol |-> p, hostname |-> h] >>
                   : p \in Protocols, h \in Hostnames }

Production == << [protocol |-> "https:", hostname |-> "admin.forge-itsm.com"] >>

\* ---------------------------------------------------------------- session
\* The AdminUser objects the backend returns, JSON.stringify of one and
\* JSON.parse of a stored text as [threw, value]: value is <<>> for null.
AdminUsers == { [email |-> "admin@example.com"] }

JSONstringify(user) == "{\"email\":\"" \o user.email \o "\"}"

\* Mutant of JSONparse: a text that is no JSON gives null instead of
\* throwing.
JSONparseNullOnSyntaxError(text) ==
  IF \E user \in AdminUsers : JSONstringify(user) = text
    THEN [threw |-> FALSE,
          value |-> << CHOOSE user \in AdminUsers :
                         JSONstringify(user) = text >>]
    ELSE [threw |-> FALSE, value |-> << >>]

JSONparse(text) ==
  IF \E user \in AdminUsers : JSONstringify(user) = text
    THEN [threw |-> FALSE,
          value |-> << CHOOSE user \in AdminUsers :
                         JSONstringify(user) = text >>]
    ELSE IF text = "null"
      THEN [threw |-> FALSE, value |-> << >>]
      ELSE [threw |-> TRUE, value |-> << >>]

\* localStorage is a record of its two keys; <<>> is what getItem returns as
\* null.  A stored value is truthy when it is not the empty string.
getItem(storage, key) == storage[key]

setItem(storage, key, value) == [storage EXCEPT ![key] = << value >>]

removeItem(storage, key) == [storage EXCEPT ![key] = << >>]

Truthy(item) == item # << >> /\ item[1] # ""

\* Mutant of removeSession: only the token is removed.
removeTokenOnly(storage) == removeItem(storage, "adminToken")

\* localStorage.removeItem('adminToken'); localStorage.removeItem('adminUser')
removeSession(storage) ==
  removeItem(removeItem(storage, "adminToken"), "adminUser")

\* The request interceptor: the Authorization header of a request sent with
\* the given storage, <<>> when none is set.
Authorization(storage) ==
  IF Truthy(getItem(storage, "adminToken"))
    THEN << "Bearer " \o getItem(storage, "adminToken")[1] >>
    ELSE << >>

\* A request as it leaves the client: data is <<>> for a GET and <<body>>
\* for the login POST; pending until its response has been handled or the
\* document that sent it is gone; response is <<>> until a response has been
\* handled, and rejected tells whether the promise was rejected to the
\* caller.
Request(base, path, storage, data) ==
  [url           |-> base \o path,
   path          |-> path,
   authorization |-> Authorization(storage),
   data          |-> data,
   pending       |-> TRUE,
   response      |-> << >>,
   rejected      |-> FALSE]

\* The outcomes of a request: a response with its status and, for the login
\* endpoint, response.data.success; status 0 stands for a request that got
\* no response (error.response is undefined).
Responses ==
  { [status |-> 200, success |-> TRUE], [status |-> 200, success |-> FALSE],
    [status |-> 401, success |-> FALSE], [status |-> 403, success |-> FALSE],
    [status |-> 500, success |-> FALSE], [status |-> 0, success |-> FALSE] }

\* axios rejects the promise of a request without a 2xx response.
IsError(response) == response.status # 200

LoginPath == "/api/admin/auth/login"

\* ----------------------------------------------------------------- routes
\* A rendered element: a page, the loading placeholder, or <Navigate to>.
Element(e, to) == [element |-> e, to |-> to]

\* The child routes of the layout route.
ChildRoutes ==
  << <<"/dashboard",   "DashboardPage">>,
     <<"/analytics",   "AnalyticsPage">>,
     <<"/admin-users", "AdminUsersPage">>,
     <<"/contact",     "ContactPage">> >>

ProtectedPages == { ChildRoutes[k][2] : k \in DOMAIN ChildRoutes }

\* Mutant of PrivateRoute: isLoading is not consulted.
PrivateRouteWithoutLoading(loading, isAuthenticated, children) ==
  IF isAuthenticated THEN children ELSE Element("Navigate", "/")

\* Mutant of PrivateRoute: the redirect goes to "/login", which no route
\* matches.
PrivateRouteToLogin(loading, isAuthenticated, children) ==
  IF loading
    THEN Element("Loading", "")
    ELSE IF isAuthenticated THEN children ELSE Element("Navigate", "/login")

PrivateRoute(loading, isAuthenticated, children) ==
  IF loading
    THEN Element("Loading", "")
    ELSE IF isAuthenticated THEN children ELSE Element("Navigate", "/")

\* <Routes>: what is rendered at a path.
Routes(path, loading, isAuthenticated) ==
  IF path = "/"
    THEN Element("LoginPage", "")
    ELSE IF OwnIndex(ChildRoutes, path) # {}
      THEN PrivateRoute(loading, isAuthenticated,
                        Element(ChildRoutes[Min(OwnIndex(ChildRoutes, path))][2],
                                ""))
      ELSE Element("Navigate", "/dashboard")

\* The paths a visitor opens: the login page, the protected pages and a path
\* no route matches.
Paths ==
  { "/", "/dashboard", "/analytics", "/admin-users", "/contact", "/nowhere" }

\* ------------------------------------------------------ application state
VARIABLES
  window,          \* <<>> (no window) or <<location>>
  pathname,        \* location.pathname
  baseURL,         \* api.defaults.baseURL: <<>> until api.ts is evaluated
  requests,        \* the requests sent so far, in order
  localStorage,    \* [adminToken, adminUser], each <<>> or <<text>>
  admin,           \* AuthProvider.admin: <<>> (null) or <<AdminUser>>
  isLoading,       \* AuthProvider.isLoading
  unloading,       \* window.location.href was assigned: the document is
                   \* about to be replaced
  email,           \* LoginPage.email
  password,        \* LoginPage.password
  turnstileToken,  \* LoginPage.turnstileToken
  error,           \* LoginPage.error
  loginIsLoading,  \* LoginPage.isLoading
  issued,          \* how many tokens the Turnstile widget has issued
  loginPageSource, \* which of the two LoginPage sources is built
  buttonDisables   \* whether Button blocks a submit while it is disabled or
                   \* loading (its source is not part of the repository
                   \* files: both are possible)

appVars ==
  << window, pathname, baseURL, requests, localStorage, admin, isLoading,
     unloading, email, password, turnstileToken, error, loginIsLoading,
     issued, loginPageSource, buttonDisables >>

isAuthenticated == admin # << >>

\* What the router shows in the current state.
Screen == Routes(pathname, isLoading, isAuthenticated)

\* An effect of the last render has not run yet: the session restore of
\* AuthProvider, the navigation of a rendered <Navigate>, or the redirect of
\* LoginPage.  React runs pending effects before it handles the next event,
\* so no input or response is handled while one is pending.
EffectsPending ==
  \/ isLoading
  \/ Screen.element = "Navigate"
  \/ Screen.element = "LoginPage" /\ isAuthenticated

\* The state of a LoginPage that has just been mounted.
LoginPageMounted ==
  /\ email = ""
  /\ password = ""
  /\ turnstileToken = ""
  /\ error = ""
  /\ loginIsLoading = FALSE

\* The funnel widget is part of the analytics page: while it is followed the
\* application is signed in on that page.
OnAnalyticsPage ==
  /\ window = Production
  /\ pathname = "/analytics"
  /\ baseURL = << getApiBaseUrl(Production) >>
  /\ requests = << >>
  /\ localStorage =
       [adminToken |-> << "jwt-stored" >>,
        adminUser  |-> << JSONstringify(CHOOSE user \in AdminUsers : TRUE) >>]
  /\ admin = << CHOOSE user \in AdminUsers : TRUE >>
  /\ isLoading = FALSE
  /\ unloading = FALSE
  /\ LoginPageMounted
  /\ issued = 0
  /\ loginPageSource = "part_008"
  /\ buttonDisables = TRUE

\* ------------------------------------------------------------ page state
\* The tenants the dashboard lists, and the texts typed into the
\* confirmation field.
Subdomains == { "acme", "beta" }

ConfirmTexts == Subdomains \cup { "", "acm", "ACME" }

\* The values of the filters of the dashboard and of the contact page.
SearchQueries == { "", "acme" }

StatusFilters == { "all", "active" }

PlanFilters == { "all", "pro" }

VARIABLES
  page,            \* the page that is mounted: "DashboardPage", "ContactPage"
                   \* or "none"
  searchQuery,     \* DashboardPage.searchQuery
  statusFilter,    \* DashboardPage.statusFilter, ContactPage.statusFilter
  planFilter,      \* DashboardPage.planFilter
  interval,        \* <<>> before the mount effect ran, then <<filters>>: the
                   \* filters in the scope of the function given to
                   \* setInterval
  tenants,         \* DashboardPage.tenants: <<>> (the initial empty list) or
                   \* <<url>>, the list the server returned for that url
  contacts,        \* ContactPage.contacts, likewise
  pageIsLoading,   \* DashboardPage.isLoading, ContactPage.isLoading
  deleteModal,     \* DashboardPage.deleteModal
  confirmText,     \* DashboardPage.confirmText
  inflight,        \* the requests of the page that have no response yet (two
                   \* equal requests in flight count once: their responses
                   \* have the same effect)
  modalBlocks      \* whether an open Modal keeps the page behind it from
                   \* being clicked (its source is not part of the
                   \* repository files: both are possible)

pageVars ==
  << page, searchQuery, statusFilter, planFilter, interval, tenants,
     contacts, pageIsLoading, deleteModal, confirmText, inflight,
     modalBlocks >>

\* useState initial values of DashboardPage and ContactPage.
PageConstructed ==
  /\ searchQuery = ""
  /\ statusFilter = "all"
  /\ planFilter = "all"
  /\ interval = << >>
  /\ tenants = << >>
  /\ contacts = << >>
  /\ pageIsLoading = TRUE
  /\ deleteModal = [isOpen |-> FALSE, tenant |-> << >>, type |-> "soft"]
  /\ confirmText = ""
  /\ inflight = {}

\* Neither page is followed.
PagesIdle == page = "none" /\ PageConstructed /\ modalBlocks = TRUE

\* ------------------------------------------------------- analytics state
\* dateRangeOptions: the values of the date range buttons (Today is 1 in
\* AnalyticsPage.tsx and 0 in part_010).
DateRanges == { 0, 1, 7, 30, 90 }

VARIABLES
  mounted,             \* whether the effects of the first render have run
  activeTab,           \* AnalyticsPage.activeTab
  dateRange,           \* AnalyticsPage.dateRange
  funnelData,          \* <<>> (null) or <<url>>: the response to that request
  pageVisitsData,      \* likewise
  timingData,          \* likewise
  abandonedUsers,      \* likewise
  sessions,            \* <<>> (the initial empty list) or <<url>>
  pagination,          \* AnalyticsPage.pagination: page and totalPages
  analyticsError,      \* AnalyticsPage.error
  analyticsIsLoading,  \* AnalyticsPage.isLoading
  pending,             \* the requests of the page that have no response yet
                       \* (two equal requests in flight count once)
  interactions,        \* how many times the user has changed the date
                       \* range, the tab and the page
  now,                 \* the local date and time new Date() returns
  timezoneOffset,      \* getTimezoneOffset(), in minutes
  currentPeriod,       \* <<>> or <<[startDate, endDate]>> as requested
  previousPeriod       \* <<>> or <<[startDate, endDate]>> as requested

analyticsVars ==
  << mounted, activeTab, dateRange, funnelData, pageVisitsData, timingData,
     abandonedUsers, sessions, pagination, analyticsError,
     analyticsIsLoading, pending, interactions, now, timezoneOffset,
     currentPeriod, previousPeriod >>

\* useState initial values of AnalyticsPage, before its effects have run.
AnalyticsConstructed ==
  /\ mounted = FALSE
  /\ activeTab = "overview"
  /\ funnelData = << >>
  /\ pageVisitsData = << >>
  /\ timingData = << >>
  /\ abandonedUsers = << >>
  /\ sessions = << >>
  /\ pagination = [page |-> 1, totalPages |-> 0]
  /\ analyticsError = ""
  /\ analyticsIsLoading = TRUE
  /\ pending = {}
  /\ interactions = [dateRange |-> 0, activeTab |-> 0, page |-> 0]
  /\ currentPeriod = << >>
  /\ previousPeriod = << >>

\* The clock while no date computation is followed.
ClockIdle ==
  /\ now = [year |-> 2024, month |-> 1, date |-> 1, ms |-> 0]
  /\ timezoneOffset = 0

\* The requests of the analytics page are not followed.
AnalyticsIdle == AnalyticsConstructed /\ dateRange = 30 /\ ClockIdle

\* ------------------------------------------------------------------ state
VARIABLES
  heap,                \* the objects: heap[r] is the object at reference r
  stages,              \* the stages prop: <<>> (missing) or <<array>>
  given,               \* the objects of the stages prop as they were passed
  pc,                  \* "response": the stage list is being received,
                       \* "rendered": FunnelWidget has rendered it
  view,                \* what the render returned: "none", "empty", "funnel"
                       \* or "TypeError" (a property read of undefined)
  consolidatedStages,  \* the aggregator's result, an array of references
  firstStage,          \* consolidatedStages[0]: <<>> or <<reference>>
  lastStage,           \* consolidatedStages[length - 1]
  previousStages,      \* the previousStages prop: <<>> or <<array>>
  previousConsolidated,\* its aggregation: <<>> (undefined) or <<array>>
  rows                 \* what the render computed for each output stage

funnelVars ==
  << heap, stages, given, pc, view, consolidatedStages, firstStage,
     lastStage, previousStages, previousConsolidated, rows >>

vars == << funnelVars, appVars, pageVars, analyticsVars >>

\* arr[i] with a zero-based index: undefined outside the array.
At(arr, i) == IF i + 1 \in DOMAIN arr THEN << arr[i + 1] >> ELSE << >>

\* The funnel response before its stage list is read: the stages field is
\* missing, or it is an array with no stage yet.
Init ==
  /\ heap = << >>
  /\ given = << >>
  /\ stages \in { << >>, << << >> >> }
  /\ pc = "response"
  /\ view = "none"
  /\ consolidatedStages = << >>
  /\ firstStage = << >>
  /\ lastStage = << >>
  /\ previousStages = << >>
  /\ previousConsolidated = << >>
  /\ rows = << >>
  /\ OnAnalyticsPage
  /\ PagesIdle
  /\ AnalyticsIdle

\* One more stage object is parsed from the response into the stages array.
Receive(stage) ==
  /\ pc = "response"
  /\ stages # << >>
  /\ Len(heap) < MaxLen
  /\ heap' = Append(heap, stage)
  /\ given' = Append(given, stage)
  /\ stages' = << Append(stages[1], Len(heap) + 1) >>
  /\ UNCHANGED << pc, view, consolidatedStages, firstStage, lastStage,
                  previousStages, previousConsolidated, rows, appVars, pageVars, analyticsVars >>

\* A response whose stages carry a dropoff field (a value no drop-off between
\* two drawn counts can equal), with any name of CoreNames, count and
\* percentage.
ReceiveStage ==
  /\ \A r \in DOMAIN heap : heap[r].dropoff # << >>
  /\ \E n \in CoreNames, c \in 0..MaxCount, p \in Percentages :
       Receive(Stage(n, c, p, << 99 >>))

\* A response whose stages carry no dropoff field, with any name of RawNames
\* and the counts of a funnel.
ReceiveFunnelStage ==
  /\ \A r \in DOMAIN heap : heap[r].dropoff = << >>
  /\ \E n \in RawNames :
       Receive(Stage(n, FunnelCount(Len(heap) + 1),
                     FunnelPercentage(Len(heap) + 1), << >>))

\* Mutant of NoFunnelData: only !stages is tested.
NoFunnelDataMissing(s) == s = << >>

\* if (!stages || stages.length === 0) return <empty state>
NoFunnelData(s) == IF s = << >> THEN TRUE ELSE Len(s[1]) = 0

RenderEmptyState ==
  /\ pc = "response"
  /\ NoFunnelData(stages)
  /\ pc' = "rendered"
  /\ view' = "empty"
  /\ UNCHANGED << heap, stages, given, consolidatedStages, firstStage,
                  lastStage, previousStages, previousConsolidated, rows, appVars, pageVars, analyticsVars >>

\* The rest of the render: the aggregation of stages and, when the prop is
\* given, of previousStages, then firstStage, lastStage and overallRate =
\* lastStage.percentage, which throws when lastStage is undefined, then the
\* values computed for each row.
RenderFunnel ==
  /\ pc = "response"
  /\ ~NoFunnelData(stages)
  /\ \E res \in { consolidateStages(heap, stages[1]) } :
     \E prev \in { IF previousStages # << >>
                     THEN consolidateStages(res.heap, previousStages[1])
                     ELSE [heap |-> res.heap, result |-> << >>] } :
       /\ heap' = prev.heap
       /\ consolidatedStages' = res.result
       /\ previousConsolidated' =
            IF previousStages # << >> THEN << prev.result >> ELSE << >>
       /\ firstStage' = At(res.result, 0)
       /\ lastStage' = At(res.result, Len(res.result) - 1)
       /\ view' = IF At(res.result, Len(res.result) - 1) = << >>
                    THEN "TypeError" ELSE "funnel"
       /\ rows' = IF At(res.result, Len(res.result) - 1) = << >>
                    THEN << >>
                    ELSE [i \in DOMAIN res.result |->
                            Row(prev.heap, res.result,
                                IF previousStages # << >>
                                  THEN << prev.result >> ELSE << >>, i)]
  /\ pc' = "rendered"
  /\ UNCHANGED << stages, given, previousStages, appVars, pageVars, analyticsVars >>

Next == ReceiveStage \/ ReceiveFunnelStage \/ RenderEmptyState \/ RenderFunnel

Spec == Init /\ [][Next]_vars

\* ------------------------------------------------- the seven-stage funnel
\* The funnel the backend reports when every step was reached: one stage for
\* each key of stageMapping.  The stages arrive in any order; the count falls
\* with the position and the percentage is the count's share of the first.
KeyCount(i) == Len(stageMapping) + 1 - i
KeyPercentage(i) == (100 * KeyCount(i)) \div KeyCount(1)

ReceiveKeyStage ==
  /\ pc = "response"
  /\ stages # << >>
  /\ Len(heap) < Len(stageMapping)
  /\ \E k \in DOMAIN stageMapping :
       /\ \A r \in DOMAIN heap : heap[r].name # stageMapping[k][1]
       /\ \E stage \in { Stage(stageMapping[k][1], KeyCount(Len(heap) + 1),
                                KeyPercentage(Len(heap) + 1), << >>) } :
            /\ heap' = Append(heap, stage)
            /\ given' = Append(given, stage)
            /\ stages' = << Append(stages[1], Len(heap) + 1) >>
  /\ UNCHANGED << pc, view, consolidatedStages, firstStage, lastStage,
                  previousStages, previousConsolidated, rows, appVars, pageVars, analyticsVars >>

KeysNext == ReceiveKeyStage \/ RenderEmptyState \/ RenderFunnel

KeysSpec == Init /\ [][KeysNext]_vars

\* ------------------------------------- comparison with the previous period
\* The analytics page that also fetches the previous period passes its
\* stages as previousStages.  What a render computes depends on the two
\* props only, not on the order in which the two responses were read, so the
\* current stages are read first.
ReceiveComparedStage ==
  /\ pc = "response"
  /\ stages # << >>
  /\ previousStages = << >>
  /\ Len(stages[1]) < MaxCompared
  /\ \E n \in CoreNames, c \in 0..MaxCount, p \in Percentages :
       /\ heap' = Append(heap, Stage(n, c, p, << >>))
       /\ given' = Append(given, Stage(n, c, p, << >>))
  /\ stages' = << Append(stages[1], Len(heap) + 1) >>
  /\ UNCHANGED << pc, view, consolidatedStages, firstStage, lastStage,
                  previousStages, previousConsolidated, rows, appVars, pageVars, analyticsVars >>

\* setPreviousFunnelData(response.data): the previous period's stage list,
\* before its stages are read.
ReceivePreviousFunnel ==
  /\ pc = "response"
  /\ previousStages = << >>
  /\ previousStages' = << << >> >>
  /\ UNCHANGED << heap, stages, given, pc, view, consolidatedStages,
                  firstStage, lastStage, previousConsolidated, rows,
                  appVars, pageVars, analyticsVars >>

ReceivePreviousStage ==
  /\ pc = "response"
  /\ previousStages # << >>
  /\ Len(previousStages[1]) < MaxCompared
  /\ \E n \in CoreNames, c \in 0..MaxCount, p \in Percentages :
       heap' = Append(heap, Stage(n, c, p, << >>))
  /\ previousStages' = << Append(previousStages[1], Len(heap) + 1) >>
  /\ UNCHANGED << stages, given, pc, view, consolidatedStages, firstStage,
                  lastStage, previousConsolidated, rows, appVars, pageVars, analyticsVars >>

ComparisonNext ==
  \/ ReceiveComparedStage
  \/ ReceivePreviousFunnel
  \/ ReceivePreviousStage
  \/ RenderEmptyState
  \/ RenderFunnel

ComparisonSpec == Init /\ [][ComparisonNext]_vars

\* ------------------------------------------------- the application's steps
\* The funnel widget before any funnel response, for the specifications that
\* follow the application around it.
FunnelIdle ==
  /\ heap = << >>
  /\ given = << >>
  /\ stages = << >>
  /\ pc = "response"
  /\ view = "none"
  /\ consolidatedStages = << >>
  /\ firstStage = << >>
  /\ lastStage = << >>
  /\ previousStages = << >>
  /\ previousConsolidated = << >>
  /\ rows = << >>

\* A document that has been requested and whose scripts have not run yet.
DocumentRequested ==
  /\ baseURL = << >>
  /\ requests = << >>
  /\ localStorage = [adminToken |-> << >>, adminUser |-> << >>]
  /\ admin = << >>
  /\ isLoading = TRUE
  /\ unloading = FALSE
  /\ LoginPageMounted
  /\ issued = 0
  /\ loginPageSource = "part_008"
  /\ buttonDisables = TRUE

ApiInit ==
  /\ FunnelIdle
  /\ PagesIdle
  /\ AnalyticsIdle
  /\ window \in Windows
  /\ pathname \in Paths
  /\ DocumentRequested

\* api.ts is evaluated: axios.create({ baseURL: getApiBaseUrl() }).
EvaluateApiModule ==
  /\ baseURL = << >>
  /\ baseURL' = << getApiBaseUrl(window) >>
  /\ UNCHANGED << funnelVars, pageVars, analyticsVars, window, pathname, requests, localStorage,
                  admin, isLoading, unloading, email, password,
                  turnstileToken, error, loginIsLoading, issued,
                  loginPageSource, buttonDisables >>

ApiNext == EvaluateApiModule

ApiSpec == ApiInit /\ [][ApiNext]_vars

\* What localStorage holds when the app is opened: nothing, a session left
\* by an earlier visit, a token without its user, or a user entry that is no
\* JSON or is the JSON null.
StoredSessions ==
  { [adminToken |-> t, adminUser |-> u]
    : t \in { << >>, << "jwt-stored" >> },
      u \in { << >>, << "not json" >>, << "null" >> }
            \cup { << JSONstringify(user) >> : user \in AdminUsers } }

\* The app right after the document at some path has loaded: api.ts is
\* evaluated and AuthProvider is constructed (admin null, isLoading true).
AppInit ==
  /\ FunnelIdle
  /\ PagesIdle
  /\ AnalyticsIdle
  /\ window = Production
  /\ pathname \in Paths
  /\ baseURL = << getApiBaseUrl(Production) >>
  /\ requests = << >>
  /\ localStorage \in StoredSessions
  /\ admin = << >>
  /\ isLoading = TRUE
  /\ unloading = FALSE
  /\ LoginPageMounted
  /\ issued = 0
  /\ loginPageSource \in { "part_007", "part_008" }
  /\ buttonDisables \in BOOLEAN

\* The login form after a client-side navigation to path: LoginPage is
\* mounted anew at "/" and does not exist elsewhere.
ResetLoginPage ==
  /\ email' = ""
  /\ password' = ""
  /\ turnstileToken' = ""
  /\ error' = ""
  /\ loginIsLoading' = FALSE

\* The effect of AuthProvider: the stored session is read once.
RestoreSession ==
  /\ isLoading
  /\ ~unloading
  /\ IF Truthy(getItem(localStorage, "adminToken"))
          /\ Truthy(getItem(localStorage, "adminUser"))
       THEN \E parsed \in { JSONparse(getItem(localStorage, "adminUser")[1]) } :
              IF parsed.threw
                THEN /\ localStorage' = removeSession(localStorage)
                     /\ admin' = admin
                ELSE /\ admin' = parsed.value
                     /\ localStorage' = localStorage
       ELSE UNCHANGED << admin, localStorage >>
  /\ isLoading' = FALSE
  /\ UNCHANGED << funnelVars, pageVars, analyticsVars, window, pathname, baseURL, requests, unloading,
                  email, password, turnstileToken, error, loginIsLoading,
                  issued, loginPageSource, buttonDisables >>

\* <Navigate to=... replace />, from PrivateRoute or the catch-all route.
FollowNavigate ==
  /\ ~unloading
  /\ Screen.element = "Navigate"
  /\ pathname' = Screen.to
  /\ ResetLoginPage
  /\ UNCHANGED << funnelVars, pageVars, analyticsVars, window, baseURL, requests, localStorage, admin,
                  isLoading, unloading, issued, loginPageSource,
                  buttonDisables >>

\* The effect of LoginPage: an authenticated visitor is sent on.
LoginPageRedirect ==
  /\ ~unloading
  /\ Screen.element = "LoginPage"
  /\ isAuthenticated
  /\ pathname' = "/dashboard"
  /\ ResetLoginPage
  /\ UNCHANGED << funnelVars, pageVars, analyticsVars, window, baseURL, requests, localStorage, admin,
                  isLoading, unloading, issued, loginPageSource,
                  buttonDisables >>

TypeEmail ==
  /\ ~unloading
  /\ ~EffectsPending
  /\ Screen.element = "LoginPage"
  /\ email = ""
  /\ email' = "admin@example.com"
  /\ UNCHANGED << funnelVars, pageVars, analyticsVars, window, pathname, baseURL, requests,
                  localStorage, admin, isLoading, unloading, password,
                  turnstileToken, error, loginIsLoading, issued,
                  loginPageSource, buttonDisables >>

TypePassword ==
  /\ ~unloading
  /\ ~EffectsPending
  /\ Screen.element = "LoginPage"
  /\ password = ""
  /\ password' = "secret"
  /\ UNCHANGED << funnelVars, pageVars, analyticsVars, window, pathname, baseURL, requests,
                  localStorage, admin, isLoading, unloading, email,
                  turnstileToken, error, loginIsLoading, issued,
                  loginPageSource, buttonDisables >>

\* The callback of the Turnstile widget, which only the LoginPage of
\* part_008 renders: a token never issued before.
TurnstileCallback ==
  /\ ~unloading
  /\ ~EffectsPending
  /\ Screen.element = "LoginPage"
  /\ loginPageSource = "part_008"
  /\ issued < MaxTokens
  /\ issued' = issued + 1
  /\ turnstileToken' = "cf-" \o ToString(issued + 1)
  /\ UNCHANGED << funnelVars, pageVars, analyticsVars, window, pathname, baseURL, requests,
                  localStorage, admin, isLoading, unloading, email, password,
                  error, loginIsLoading, loginPageSource, buttonDisables >>

\* Whether a submit reaches handleSubmit: a Button that honours its props
\* blocks it while isLoading and, in part_008, while disabled.
SubmitReachesHandler ==
  buttonDisables =>
    /\ ~loginIsLoading
    /\ loginPageSource = "part_008" => turnstileToken # ""

\* handleSubmit up to the await of login(): the checks, then the POST.  The
\* LoginPage of part_007 has no Turnstile check and passes '' as the token.
Submit ==
  /\ ~unloading
  /\ ~EffectsPending
  /\ Screen.element = "LoginPage"
  /\ SubmitReachesHandler
  /\ IF email = "" \/ password = ""
       THEN /\ error' = "Please enter email and password"
            /\ UNCHANGED << requests, loginIsLoading >>
       ELSE IF loginPageSource = "part_008" /\ turnstileToken = ""
         THEN /\ error' = "Please complete the security check"
              /\ UNCHANGED << requests, loginIsLoading >>
         ELSE /\ Len(requests) < MaxRequests
              /\ error' = ""
              /\ loginIsLoading' = TRUE
              /\ requests' =
                   Append(requests,
                          Request(baseURL[1], LoginPath, localStorage,
                                  << [email          |-> email,
                                      password       |-> password,
                                      turnstileToken |->
                                        IF loginPageSource = "part_008"
                                          THEN turnstileToken ELSE ""] >>))
  /\ UNCHANGED << funnelVars, pageVars, analyticsVars, window, pathname, baseURL, localStorage, admin,
                  isLoading, unloading, email, password, turnstileToken,
                  issued, loginPageSource, buttonDisables >>

\* Mutant of Rejected: every error status ends the session.
RejectedOnAnyStatus(status, storage) ==
  IF status >= 400
    THEN [storage |-> removeSession(storage), redirect |-> TRUE,
          rejected |-> TRUE]
    ELSE [storage |-> storage, redirect |-> FALSE, rejected |-> TRUE]

\* The response interceptor's error handler, as the storage it leaves,
\* whether it assigned window.location.href, and whether it returned a
\* rejected promise.
Rejected(status, storage) ==
  IF status = 401
    THEN [storage |-> removeSession(storage), redirect |-> TRUE,
          rejected |-> TRUE]
    ELSE [storage |-> storage, redirect |-> FALSE, rejected |-> TRUE]

\* The catch and finally blocks of handleSubmit, when the page that
\* submitted is still mounted.
LoginFailed ==
  IF pathname = "/"
    THEN /\ error' = "Login failed"
         /\ turnstileToken' =
              IF loginPageSource = "part_008" THEN "" ELSE turnstileToken
         /\ loginIsLoading' = FALSE
    ELSE UNCHANGED << error, turnstileToken, loginIsLoading >>

\* login() after its await, then the rest of handleSubmit.  An error
\* response goes through the response interceptor and rejects the await; a
\* 200 response with success false makes login throw; a 200 response with
\* success true stores the session and handleSubmit navigates on.
LoginResponse ==
  \E i \in DOMAIN requests : \E response \in Responses :
    /\ ~EffectsPending
    /\ requests[i].pending
    /\ requests[i].path = LoginPath
    /\ IF IsError(response)
         THEN /\ localStorage' = Rejected(response.status, localStorage).storage
              /\ unloading' =
                   (unloading \/ Rejected(response.status, localStorage).redirect)
              /\ requests' =
                   [requests EXCEPT
                      ![i].pending = FALSE,
                      ![i].response = << response >>,
                      ![i].rejected =
                        Rejected(response.status, localStorage).rejected]
              /\ LoginFailed
              /\ UNCHANGED << admin, pathname, email, password >>
         ELSE IF response.success
           THEN /\ localStorage' =
                     setItem(setItem(localStorage, "adminToken", "jwt-issued"),
                             "adminUser",
                             JSONstringify(
                               CHOOSE user \in AdminUsers :
                                 user.email = requests[i].data[1].email))
                /\ admin' = << CHOOSE user \in AdminUsers :
                                 user.email = requests[i].data[1].email >>
                /\ requests' = [requests EXCEPT ![i].pending = FALSE,
                                                ![i].response = << response >>]
                /\ pathname' = "/dashboard"
                /\ ResetLoginPage
                /\ UNCHANGED unloading
           ELSE /\ requests' = [requests EXCEPT ![i].pending = FALSE,
                                                ![i].response = << response >>,
                                                ![i].rejected = TRUE]
                /\ LoginFailed
                /\ UNCHANGED << localStorage, unloading, admin, pathname,
                                email, password >>
    /\ UNCHANGED << funnelVars, pageVars, analyticsVars, window, baseURL, isLoading, issued,
                    loginPageSource, buttonDisables >>

\* logout(), from the layout of a protected page.
Logout ==
  /\ ~unloading
  /\ ~EffectsPending
  /\ Screen.element \in ProtectedPages
  /\ localStorage' = removeSession(localStorage)
  /\ admin' = << >>
  /\ unloading' = TRUE
  /\ UNCHANGED << funnelVars, pageVars, analyticsVars, window, pathname, baseURL, requests, isLoading,
                  email, password, turnstileToken, error, loginIsLoading,
                  issued, loginPageSource, buttonDisables >>

\* A protected page fetches its data.
ApiGet ==
  /\ ~unloading
  /\ ~EffectsPending
  /\ Screen.element \in ProtectedPages
  /\ Len(requests) < MaxRequests
  /\ requests' = Append(requests,
                        Request(baseURL[1], "/api/admin/data", localStorage,
                                << >>))
  /\ UNCHANGED << funnelVars, pageVars, analyticsVars, window, pathname, baseURL, localStorage, admin,
                  isLoading, unloading, email, password, turnstileToken,
                  error, loginIsLoading, issued, loginPageSource,
                  buttonDisables >>

ApiResponse ==
  \E i \in DOMAIN requests :
    /\ ~EffectsPending
    /\ requests[i].pending
    /\ requests[i].path # LoginPath
    /\ \E response \in Responses :
         IF IsError(response)
           THEN /\ localStorage' =
                     Rejected(response.status, localStorage).storage
                /\ unloading' =
                     (unloading
                        \/ Rejected(response.status, localStorage).redirect)
                /\ requests' =
                     [requests EXCEPT
                        ![i].pending = FALSE,
                        ![i].response = << response >>,
                        ![i].rejected =
                          Rejected(response.status, localStorage).rejected]
           ELSE /\ requests' = [requests EXCEPT ![i].pending = FALSE,
                                                ![i].response = << response >>]
                /\ UNCHANGED << localStorage, unloading >>
    /\ UNCHANGED << funnelVars, pageVars, analyticsVars, window, pathname, baseURL, admin, isLoading,
                    email, password, turnstileToken, error, loginIsLoading,
                    issued, loginPageSource, buttonDisables >>

\* The navigation started by window.location.href = '/' completes: the
\* document is replaced, its pending requests are dropped, and the app
\* starts again at "/".
Unload ==
  /\ unloading
  /\ unloading' = FALSE
  /\ pathname' = "/"
  /\ baseURL' = << getApiBaseUrl(window) >>
  /\ requests' = [i \in DOMAIN requests |->
                    [requests[i] EXCEPT !.pending = FALSE]]
  /\ admin' = << >>
  /\ isLoading' = TRUE
  /\ ResetLoginPage
  /\ UNCHANGED << funnelVars, pageVars, analyticsVars, window, localStorage, issued, loginPageSource,
                  buttonDisables >>

AppNext ==
  \/ RestoreSession
  \/ FollowNavigate
  \/ LoginPageRedirect
  \/ TypeEmail
  \/ TypePassword
  \/ TurnstileCallback
  \/ Submit
  \/ LoginResponse
  \/ Logout
  \/ ApiGet
  \/ ApiResponse
  \/ Unload

AppSpec == AppInit /\ [][AppNext]_vars

\* The effects always run: React runs the effects of every committed render.
AppLiveSpec ==
  /\ AppInit
  /\ [][AppNext]_vars
  /\ WF_vars(RestoreSession)
  /\ WF_vars(FollowNavigate)
  /\ WF_vars(LoginPageRedirect)

\* ------------------------------------------------- dashboard and contacts
\* The application while a protected page is followed: signed in, nothing
\* else going on.
SignedIn ==
  /\ window = Production
  /\ baseURL = << getApiBaseUrl(Production) >>
  /\ requests = << >>
  /\ localStorage =
       [adminToken |-> << "jwt-stored" >>,
        adminUser  |-> << JSONstringify(CHOOSE user \in AdminUsers : TRUE) >>]
  /\ admin = << CHOOSE user \in AdminUsers : TRUE >>
  /\ isLoading = FALSE
  /\ unloading = FALSE
  /\ LoginPageMounted
  /\ issued = 0
  /\ loginPageSource = "part_008"

\* URLSearchParams.toString() of the appended pairs.
RECURSIVE Join(_)
Join(pairs) ==
  IF pairs = << >> THEN ""
  ELSE IF Len(pairs) = 1 THEN pairs[1]
  ELSE pairs[1] \o "&" \o Join(Tail(pairs))

\* The filters in the scope of a function created by the current render.
Filters ==
  [searchQuery  |-> searchQuery,
   statusFilter |-> statusFilter,
   planFilter   |-> planFilter]

\* The url fetchTenants requests, run with filters f in scope.
fetchTenantsUrl(f) ==
  "/api/admin/tenants?"
    \o Join((IF f.searchQuery # ""
               THEN << "search=" \o f.searchQuery >> ELSE << >>)
            \o (IF f.statusFilter # "all"
                  THEN << "status=" \o f.statusFilter >> ELSE << >>)
            \o (IF f.planFilter # "all"
                  THEN << "plan=" \o f.planFilter >> ELSE << >>))

\* The url fetchContacts requests, run with filters f in scope.
fetchContactsUrl(f) ==
  "/api/admin/contacts?"
    \o Join(IF f.statusFilter # "all"
              THEN << "status=" \o f.statusFilter >> ELSE << >>)

\* The list request of the mounted page, made by a function with filters f
\* in scope; by tells what called it: an effect, the interval timer, or an
\* event handler.
Fetch(f, by) ==
  [method |-> "GET",
   url    |-> IF page = "DashboardPage"
                THEN fetchTenantsUrl(f) ELSE fetchContactsUrl(f),
   by     |-> by,
   then   |-> ""]

Send(request) ==
  /\ inflight' = inflight \cup { request }
  /\ Cardinality(inflight \cup { request }) <= MaxInFlight

\* The effects of the first render: the mount effect calls the fetch
\* function and hands it to setInterval, the filter effect calls it again.
MountEffects ==
  /\ page # "none"
  /\ interval = << >>
  /\ interval' = << Filters >>
  /\ Send(Fetch(Filters, "effect"))
  /\ UNCHANGED << funnelVars, appVars, analyticsVars, page, modalBlocks, searchQuery, statusFilter,
                  planFilter, tenants, contacts, pageIsLoading, deleteModal,
                  confirmText >>

\* A filter is changed: the page renders again and the filter effect calls
\* the fetch function of that render.
SetSearchQuery ==
  /\ page = "DashboardPage"
  /\ interval # << >>
  /\ \E q \in SearchQueries \ { searchQuery } :
       /\ searchQuery' = q
       /\ Send(Fetch([Filters EXCEPT !.searchQuery = q], "effect"))
  /\ UNCHANGED << funnelVars, appVars, analyticsVars, page, modalBlocks, statusFilter, planFilter,
                  interval, tenants, contacts, pageIsLoading, deleteModal,
                  confirmText >>

SetStatusFilter ==
  /\ page # "none"
  /\ interval # << >>
  /\ \E f \in StatusFilters \ { statusFilter } :
       /\ statusFilter' = f
       /\ Send(Fetch([Filters EXCEPT !.statusFilter = f], "effect"))
  /\ UNCHANGED << funnelVars, appVars, analyticsVars, page, modalBlocks, searchQuery, planFilter,
                  interval, tenants, contacts, pageIsLoading, deleteModal,
                  confirmText >>

SetPlanFilter ==
  /\ page = "DashboardPage"
  /\ interval # << >>
  /\ \E f \in PlanFilters \ { planFilter } :
       /\ planFilter' = f
       /\ Send(Fetch([Filters EXCEPT !.planFilter = f], "effect"))
  /\ UNCHANGED << funnelVars, appVars, analyticsVars, page, modalBlocks, searchQuery, statusFilter,
                  interval, tenants, contacts, pageIsLoading, deleteModal,
                  confirmText >>

\* The 30-second timer fires: the function given to setInterval runs.
IntervalFires ==
  /\ interval # << >>
  /\ Send(Fetch(interval[1], "interval"))
  /\ UNCHANGED << funnelVars, appVars, analyticsVars, page, modalBlocks, searchQuery, statusFilter,
                  planFilter, interval, tenants, contacts, pageIsLoading,
                  deleteModal, confirmText >>

\* A list request is answered: the list is replaced on success, and
\* isLoading is cleared either way.
ListResponse ==
  \E request \in inflight : \E ok \in BOOLEAN :
    /\ request.method = "GET"
    /\ inflight' = inflight \ { request }
    /\ tenants' = IF ok /\ page = "DashboardPage"
                    THEN << request.url >> ELSE tenants
    /\ contacts' = IF ok /\ page = "ContactPage"
                     THEN << request.url >> ELSE contacts
    /\ pageIsLoading' = FALSE
    /\ UNCHANGED << funnelVars, appVars, analyticsVars, page, modalBlocks, searchQuery, statusFilter,
                    planFilter, interval, deleteModal, confirmText >>

RefreshInit ==
  /\ FunnelIdle
  /\ AnalyticsIdle
  /\ SignedIn
  /\ buttonDisables = TRUE
  /\ \/ pathname = "/dashboard" /\ page = "DashboardPage"
     \/ pathname = "/contact" /\ page = "ContactPage"
  /\ PageConstructed
  /\ modalBlocks = TRUE

RefreshNext ==
  \/ MountEffects
  \/ SetSearchQuery
  \/ SetStatusFilter
  \/ SetPlanFilter
  \/ IntervalFires
  \/ ListResponse

RefreshSpec == RefreshInit /\ [][RefreshNext]_vars

\* ----------------------------------------------------------- delete modal
\* A row's soft-delete or hard-delete button.  The rows come from a loaded
\* list; whether the open modal keeps the rows from being clicked is up to
\* Modal.
OpenDeleteModal ==
  /\ page = "DashboardPage"
  /\ tenants # << >>
  /\ modalBlocks => ~deleteModal.isOpen
  /\ \E tenant \in Subdomains : \E type \in { "soft", "hard" } :
       deleteModal' = [isOpen |-> TRUE, tenant |-> << tenant >>, type |-> type]
  /\ UNCHANGED << funnelVars, appVars, analyticsVars, page, modalBlocks, searchQuery, statusFilter,
                  planFilter, interval, tenants, contacts, pageIsLoading,
                  confirmText, inflight >>

\* The confirmation input, which is rendered in the open modal in 'hard'
\* mode.
TypeConfirmText ==
  /\ deleteModal.isOpen
  /\ deleteModal.type = "hard"
  /\ \E text \in ConfirmTexts \ { confirmText } : confirmText' = text
  /\ UNCHANGED << funnelVars, appVars, analyticsVars, page, modalBlocks, searchQuery, statusFilter,
                  planFilter, interval, tenants, contacts, pageIsLoading,
                  deleteModal, inflight >>

\* onClose of the modal and the Cancel button.
CloseDeleteModal ==
  /\ deleteModal.isOpen
  /\ deleteModal' = [isOpen |-> FALSE, tenant |-> << >>, type |-> "soft"]
  /\ confirmText' = ""
  /\ UNCHANGED << funnelVars, appVars, analyticsVars, page, modalBlocks, searchQuery, statusFilter,
                  planFilter, interval, tenants, contacts, pageIsLoading,
                  inflight >>

\* Mutant of Confirmed: the typed text is not compared.
ConfirmedUnchecked(modal, text) == TRUE

\* The check of handleDeleteTenant before it sends anything.
Confirmed(modal, text) ==
  ~(modal.type = "hard" /\ text # modal.tenant[1])

\* The disabled prop of the modal's delete button.
DeleteDisabled ==
  /\ deleteModal.type = "hard"
  /\ << confirmText >> # deleteModal.tenant

\* The request handleDeleteTenant sends; then is the url of the
\* fetchTenants() that follows its success.
DeleteRequest(modal, f) ==
  [method |-> IF modal.type = "soft" THEN "POST" ELSE "DELETE",
   url    |-> IF modal.type = "soft"
                THEN "/api/admin/tenants/" \o modal.tenant[1] \o "/soft-delete"
                ELSE "/api/admin/tenants/" \o modal.tenant[1],
   by     |-> "handler",
   then   |-> fetchTenantsUrl(f)]

\* handleDeleteTenant up to its await, called by the modal's delete button.
handleDeleteTenant ==
  /\ deleteModal.isOpen
  /\ buttonDisables => ~DeleteDisabled
  /\ IF deleteModal.tenant = << >>
       THEN UNCHANGED inflight
       ELSE IF ~Confirmed(deleteModal, confirmText)
         THEN UNCHANGED inflight
         ELSE Send(DeleteRequest(deleteModal, Filters))
  /\ UNCHANGED << funnelVars, appVars, analyticsVars, page, modalBlocks, searchQuery, statusFilter,
                  planFilter, interval, tenants, contacts, pageIsLoading,
                  deleteModal, confirmText >>

\* handleDeleteTenant after its await: on success the modal is closed, the
\* text cleared and the list fetched again; on failure an alert is shown.
DeleteResponse ==
  \E request \in inflight : \E ok \in BOOLEAN :
    /\ request.method # "GET"
    /\ IF ok
         THEN /\ deleteModal' =
                   [isOpen |-> FALSE, tenant |-> << >>, type |-> "soft"]
              /\ confirmText' = ""
              /\ inflight' =
                   (inflight \ { request })
                     \cup { [method |-> "GET", url |-> request.then,
                             by |-> "handler", then |-> ""] }
         ELSE /\ inflight' = inflight \ { request }
              /\ UNCHANGED << deleteModal, confirmText >>
    /\ UNCHANGED << funnelVars, appVars, analyticsVars, page, modalBlocks, searchQuery, statusFilter,
                    planFilter, interval, tenants, contacts, pageIsLoading >>

DeleteInit ==
  /\ FunnelIdle
  /\ AnalyticsIdle
  /\ SignedIn
  /\ buttonDisables \in BOOLEAN
  /\ pathname = "/dashboard"
  /\ page = "DashboardPage"
  /\ PageConstructed
  /\ modalBlocks \in BOOLEAN

DeleteNext ==
  \/ MountEffects
  \/ ListResponse
  \/ OpenDeleteModal
  \/ TypeConfirmText
  \/ CloseDeleteModal
  \/ handleDeleteTenant
  \/ DeleteResponse

DeleteSpec == DeleteInit /\ [][DeleteNext]_vars

\* -------------------------------------------------------- analytics page
clockVars == << now, timezoneOffset, currentPeriod, previousPeriod >>

\* A request of the analytics page: the function that made it, its url, and
\* for a sessions request the page it asks for.
Get(fetch, url, requestedPage) ==
  [fetch |-> fetch, url |-> url, page |-> requestedPage]

fetchAnalytics(days) ==
  Get("fetchAnalytics",
      "/api/admin/analytics/funnel?days=" \o ToString(days), 0)

fetchPageVisits(days) ==
  Get("fetchPageVisits",
      "/api/admin/analytics/page-visits?days=" \o ToString(days), 0)

fetchTimingData(days) ==
  Get("fetchTimingData",
      "/api/admin/analytics/timing?days=" \o ToString(days), 0)

fetchAbandonedUsers ==
  Get("fetchAbandonedUsers",
      "/api/admin/analytics/abandoned-users?minStage=step3_completed", 0)

fetchSessions(requestedPage) ==
  Get("fetchSessions",
      "/api/admin/analytics/sessions?page=" \o ToString(requestedPage)
        \o "&limit=50",
      requestedPage)

\* The requests the effect keyed on activeTab, dateRange and pagination.page
\* makes when it runs with these values.
Effect(tab, days, currentPage) ==
  IF tab = "overview"
    THEN { fetchAnalytics(days), fetchPageVisits(days), fetchTimingData(days),
           fetchAbandonedUsers }
    ELSE { fetchSessions(currentPage) }

\* The effect runs after the first render.
AnalyticsMount ==
  /\ ~mounted
  /\ mounted' = TRUE
  /\ pending' = pending \cup Effect(activeTab, dateRange, pagination.page)
  /\ analyticsIsLoading' = TRUE
  /\ UNCHANGED << funnelVars, appVars, pageVars, clockVars, activeTab,
                  dateRange, funnelData, pageVisitsData, timingData,
                  abandonedUsers, sessions, pagination, analyticsError,
                  interactions >>

\* A date range button: the page renders again and the effect runs.
SetDateRange ==
  /\ mounted
  /\ interactions.dateRange < MaxRangeChanges
  /\ interactions' = [interactions EXCEPT !.dateRange = @ + 1]
  /\ \E value \in (DateRanges \ { 0 }) \ { dateRange } :
       /\ dateRange' = value
       /\ pending' = pending \cup Effect(activeTab, value, pagination.page)
  /\ analyticsIsLoading' = TRUE
  /\ UNCHANGED << funnelVars, appVars, pageVars, clockVars, mounted,
                  activeTab, funnelData, pageVisitsData, timingData,
                  abandonedUsers, sessions, pagination, analyticsError >>

\* A tab button.
SetActiveTab ==
  /\ mounted
  /\ interactions.activeTab < MaxTabChanges
  /\ interactions' = [interactions EXCEPT !.activeTab = @ + 1]
  /\ \E tab \in { "overview", "sessions" } \ { activeTab } :
       /\ activeTab' = tab
       /\ pending' = pending \cup Effect(tab, dateRange, pagination.page)
  /\ analyticsIsLoading' = TRUE
  /\ UNCHANGED << funnelVars, appVars, pageVars, clockVars, mounted,
                  dateRange, funnelData, pageVisitsData, timingData,
                  abandonedUsers, sessions, pagination, analyticsError >>

\* The Previous and Next buttons of the sessions tab, rendered when there
\* is more than one page and disabled on the first and the last page.
SetPage ==
  /\ mounted
  /\ activeTab = "sessions"
  /\ pagination.totalPages > 1
  /\ interactions.page < MaxPageChanges
  /\ interactions' = [interactions EXCEPT !.page = @ + 1]
  /\ \E step \in { -1, 1 } :
       /\ step = -1 => pagination.page # 1
       /\ step = 1 => pagination.page # pagination.totalPages
       /\ pagination' = [pagination EXCEPT !.page = pagination.page + step]
       /\ pending' =
            pending \cup Effect(activeTab, dateRange, pagination.page + step)
  /\ analyticsIsLoading' = TRUE
  /\ UNCHANGED << funnelVars, appVars, pageVars, clockVars, mounted,
                  activeTab, dateRange, funnelData, pageVisitsData,
                  timingData, abandonedUsers, sessions, analyticsError >>

\* fetchAnalytics after its await.
FunnelResponse ==
  \E request \in pending : \E ok \in BOOLEAN :
    /\ request.fetch = "fetchAnalytics"
    /\ pending' = pending \ { request }
    /\ funnelData' = IF ok THEN << request.url >> ELSE funnelData
    /\ analyticsError' = IF ok THEN "" ELSE "Failed to load analytics data"
    /\ analyticsIsLoading' = FALSE
    /\ UNCHANGED << funnelVars, appVars, pageVars, clockVars, mounted,
                    activeTab, dateRange, pageVisitsData, timingData,
                    abandonedUsers, sessions, pagination, interactions >>

\* fetchPageVisits, fetchTimingData and fetchAbandonedUsers after their
\* await.
OverviewResponse ==
  \E request \in pending : \E ok \in BOOLEAN :
    /\ request.fetch
         \in { "fetchPageVisits", "fetchTimingData", "fetchAbandonedUsers" }
    /\ pending' = pending \ { request }
    /\ pageVisitsData' = IF ok /\ request.fetch = "fetchPageVisits"
                           THEN << request.url >> ELSE pageVisitsData
    /\ timingData' = IF ok /\ request.fetch = "fetchTimingData"
                       THEN << request.url >> ELSE timingData
    /\ abandonedUsers' = IF ok /\ request.fetch = "fetchAbandonedUsers"
                           THEN << request.url >> ELSE abandonedUsers
    /\ UNCHANGED << funnelVars, appVars, pageVars, clockVars, mounted,
                    activeTab, dateRange, funnelData, sessions, pagination,
                    analyticsError, analyticsIsLoading, interactions >>

\* fetchSessions after its await: the server answers with the page that was
\* asked for and the number of pages it has.  When that changes
\* pagination.page the effect runs again.
SessionsResponse ==
  \E request \in pending : \E ok \in BOOLEAN :
    /\ request.fetch = "fetchSessions"
    /\ IF ok
         THEN /\ sessions' = << request.url >>
              /\ pagination' = [page |-> request.page, totalPages |-> MaxPages]
              /\ analyticsError' = ""
              /\ IF request.page # pagination.page
                   THEN /\ pending' =
                             (pending \ { request })
                               \cup Effect(activeTab, dateRange, request.page)
                        /\ analyticsIsLoading' = TRUE
                   ELSE /\ pending' = pending \ { request }
                        /\ analyticsIsLoading' = FALSE
         ELSE /\ pending' = pending \ { request }
              /\ analyticsError' = "Failed to load sessions data"
              /\ analyticsIsLoading' = FALSE
              /\ UNCHANGED << sessions, pagination >>
    /\ UNCHANGED << funnelVars, appVars, pageVars, clockVars, mounted,
                    activeTab, dateRange, funnelData, pageVisitsData,
                    timingData, abandonedUsers, interactions >>

AnalyticsInit ==
  /\ FunnelIdle
  /\ PagesIdle
  /\ SignedIn
  /\ buttonDisables = TRUE
  /\ pathname = "/analytics"
  /\ AnalyticsConstructed
  /\ dateRange = 30
  /\ ClockIdle

AnalyticsNext ==
  \/ AnalyticsMount
  \/ SetDateRange
  \/ SetActiveTab
  \/ SetPage
  \/ FunnelResponse
  \/ OverviewResponse
  \/ SessionsResponse

AnalyticsSpec == AnalyticsInit /\ [][AnalyticsNext]_vars

\* The analytics page of a user who leaves the date range alone; every
\* request gets its response or fails, and effects always run.
SessionsNext ==
  \/ AnalyticsMount
  \/ SetActiveTab
  \/ SetPage
  \/ FunnelResponse
  \/ OverviewResponse
  \/ SessionsResponse

SessionsLiveSpec ==
  /\ AnalyticsInit
  /\ [][SessionsNext]_vars
  /\ WF_vars(AnalyticsMount)
  /\ WF_vars(FunnelResponse)
  /\ WF_vars(OverviewResponse)
  /\ WF_vars(SessionsResponse)

\* ------------------------------------------------------------ date ranges
\* The analytics page with the Today range (dateRangeOptions 0, 7, 30, 90).
\* A Date is its local fields: year, month (1..12), date (day of the month)
\* and ms, the milliseconds since the start of that day.
IsLeapYear(year) ==
  (year % 4 = 0 /\ year % 100 # 0) \/ year % 400 = 0

DaysInMonth(year, month) ==
  IF month = 2 THEN (IF IsLeapYear(year) THEN 29 ELSE 28)
  ELSE IF month \in { 4, 6, 9, 11 } THEN 30 ELSE 31

\* Date.prototype.setDate: a day of the month outside the month moves the
\* date into the months before or after.
RECURSIVE setDate(_, _)
setDate(d, dayValue) ==
  IF dayValue < 1
    THEN IF d.month = 1
      THEN setDate([d EXCEPT !.year = d.year - 1, !.month = 12],
                   dayValue + DaysInMonth(d.year - 1, 12))
      ELSE setDate([d EXCEPT !.month = d.month - 1],
                   dayValue + DaysInMonth(d.year, d.month - 1))
  ELSE IF dayValue > DaysInMonth(d.year, d.month)
    THEN IF d.month = 12
      THEN setDate([d EXCEPT !.year = d.year + 1, !.month = 1],
                   dayValue - DaysInMonth(d.year, 12))
      ELSE setDate([d EXCEPT !.month = d.month + 1],
                   dayValue - DaysInMonth(d.year, d.month))
  ELSE [d EXCEPT !.date = dayValue]

\* Date.prototype.setHours(hours, min, sec, ms).
setHours(d, hours, min, sec, ms) ==
  [d EXCEPT !.ms = ((hours * 60 + min) * 60 + sec) * 1000 + ms]

\* Date.prototype.setFullYear: February 29 of a year that has none becomes
\* March 1.
setFullYear(d, year) ==
  IF d.date > DaysInMonth(year, d.month)
    THEN [d EXCEPT !.year = year, !.month = d.month + 1, !.date = 1]
    ELSE [d EXCEPT !.year = year]

\* Date.prototype.toISOString: the fields of the same instant in UTC, which
\* is offset minutes after local time (offset is getTimezoneOffset()).
toISOString(d, offset) ==
  IF d.ms + offset * 60000 < 0
    THEN [setDate(d, d.date - 1) EXCEPT !.ms = d.ms + offset * 60000 + 86400000]
    ELSE IF d.ms + offset * 60000 >= 86400000
      THEN [setDate(d, d.date + 1) EXCEPT
              !.ms = d.ms + offset * 60000 - 86400000]
      ELSE [d EXCEPT !.ms = d.ms + offset * 60000]

\* getDateRangeForTimezone(days), with the clock reading clock.
getDateRangeForTimezone(days, clock, offset) ==
  [startDate |->
     toISOString(
       IF days = -1
         THEN setHours(setFullYear(clock, clock.year - 10), 0, 0, 0, 0)
         ELSE IF days = 0
           THEN setHours(clock, 0, 0, 0, 0)
           ELSE setHours(setDate(clock, clock.date - days + 1), 0, 0, 0, 0),
       offset),
   endDate |-> toISOString(setHours(clock, 23, 59, 59, 999), offset)]

\* prevEndDate of fetchPreviousPeriodData.
prevEndDate(days, clock) ==
  IF days = 0
    THEN setHours(setDate(clock, clock.date - 1), 23, 59, 59, 999)
    ELSE setHours(setDate(clock, clock.date - days), 23, 59, 59, 999)

\* Mutant of prevStartDate: the + 1 is missing.
prevStartDateOneDayEarly(days, clock) ==
  setHours(setDate(prevEndDate(days, clock),
                   prevEndDate(days, clock).date
                     - (IF days = 0 THEN 1 ELSE days)),
           0, 0, 0, 0)

\* prevStartDate of fetchPreviousPeriodData.
prevStartDate(days, clock) ==
  setHours(setDate(prevEndDate(days, clock),
                   prevEndDate(days, clock).date
                     - (IF days = 0 THEN 1 ELSE days) + 1),
           0, 0, 0, 0)

\* The startDate and endDate params of fetchPreviousPeriodData.
previousPeriodParams(days, clock, offset) ==
  [startDate |-> toISOString(prevStartDate(days, clock), offset),
   endDate   |-> toISOString(prevEndDate(days, clock), offset)]

\* The clock readings: every day of a leap year, at the start, the middle
\* and the last millisecond of the day.
Clocks ==
  { [year |-> 2024, month |-> m, date |-> d, ms |-> t]
    : m \in 1..12, d \in 1..31, t \in { 0, 43200000, 86399999 } }
    \ { c \in [year : { 2024 }, month : 1..12, date : 29..31,
                ms : { 0, 43200000, 86399999 }]
          : c.date > DaysInMonth(c.year, c.month) }

\* getTimezoneOffset() in India, in UTC and in US Central time.
TimezoneOffsets == { -330, 0, 360 }

\* The effect of the analytics page, overview tab, as far as the dates go:
\* the params of the funnel request and of the previous-period request.
RequestPeriods(days) ==
  /\ currentPeriod' = << getDateRangeForTimezone(days, now, timezoneOffset) >>
  /\ previousPeriod' = << previousPeriodParams(days, now, timezoneOffset) >>

PeriodsMount ==
  /\ ~mounted
  /\ mounted' = TRUE
  /\ RequestPeriods(dateRange)
  /\ UNCHANGED << funnelVars, appVars, pageVars, activeTab, dateRange,
                  funnelData, pageVisitsData, timingData, abandonedUsers,
                  sessions, pagination, analyticsError, analyticsIsLoading,
                  pending, interactions, now, timezoneOffset >>

PeriodsSetDateRange ==
  /\ mounted
  /\ \E value \in (DateRanges \ { 1 }) \ { dateRange } :
       /\ dateRange' = value
       /\ RequestPeriods(value)
  /\ UNCHANGED << funnelVars, appVars, pageVars, mounted, activeTab,
                  funnelData, pageVisitsData, timingData, abandonedUsers,
                  sessions, pagination, analyticsError, analyticsIsLoading,
                  pending, interactions, now, timezoneOffset >>

PeriodsInit ==
  /\ FunnelIdle
  /\ PagesIdle
  /\ SignedIn
  /\ buttonDisables = TRUE
  /\ pathname = "/analytics"
  /\ AnalyticsConstructed
  /\ dateRange = 0
  /\ now \in Clocks
  /\ timezoneOffset \in TimezoneOffsets

PeriodsNext == PeriodsMount \/ PeriodsSetDateRange

PeriodsSpec == PeriodsInit /\ [][PeriodsNext]_vars

\* ------------------------------------------------------------------ claims
\* The stage at position i of the aggregator's result, and the input stage at
\* position j as it was passed.
Out(i) == heap[consolidatedStages[i]]

Outputs == DOMAIN consolidatedStages

Inputs == DOMAIN given

Aggregated == pc = "rendered" /\ view = "funnel"

\* C1: in the returned list the first stage has dropoff 0 and every later
\* stage has dropoff = previous count - own count, in the sorted order; a
\* dropoff carried by the input is overwritten.
C1_DropoffsRecomputed ==
  Aggregated =>
    \A i \in Outputs :
      Out(i).dropoff =
        << IF i = 1 THEN 0 ELSE Out(i - 1).count - Out(i).count >>

\* C1 witness: the input carried a dropoff and the second output stage got a
\* non-zero drop-off from the counts.
C1_Witness ==
  /\ Aggregated
  /\ Len(consolidatedStages) >= 2
  /\ \A j \in Inputs : given[j].dropoff = << 99 >>
  /\ Out(1).dropoff = << 0 >>
  /\ Out(2).dropoff = << 1 >>

\* C2: the returned list is ordered by percentage, non-increasing, whatever
\* the order of the input.
C2_SortedByPercentage ==
  Aggregated =>
    \A i \in Outputs : \A j \in Outputs :
      i < j => Out(i).percentage >= Out(j).percentage

\* C2 witness: an input in increasing percentage order came out in
\* decreasing order.
C2_Witness ==
  /\ Aggregated
  /\ Len(given) = 3
  /\ given[1].percentage < given[3].percentage
  /\ Len(consolidatedStages) = 3
  /\ Out(1).percentage > Out(3).percentage

\* The bucket each drawn name resolves to, tabulated.
Bucket == [n \in RawNames |-> newName(n)]

\* The input stages that resolve to the bucket named b.
Members(b) == { j \in Inputs : Bucket[given[j].name] = b }

\* The first input stage with the highest count among those of S.
FirstHighest(S) ==
  Min({ j \in S : \A k \in S : given[k].count <= given[j].count })

\* C3: every output bucket has the count and percentage of the input stage
\* with the highest count among the stages that resolve to it, the first of
\* them in input order when several share that count.
C3_HighestCountFirstSeen ==
  Aggregated =>
    \A i \in Outputs :
      /\ Members(Out(i).name) # {}
      /\ Out(i).count = given[FirstHighest(Members(Out(i).name))].count
      /\ Out(i).percentage =
           given[FirstHighest(Members(Out(i).name))].percentage

\* C3 witness: two stages of one bucket tie on the count with different
\* percentages, and the output has the percentage of the earlier one.
C3_Witness ==
  /\ Aggregated
  /\ Len(given) = 2
  /\ given[1].name = given[2].name
  /\ given[1].count = given[2].count
  /\ given[1].percentage < given[2].percentage
  /\ Len(consolidatedStages) = 1
  /\ Out(1).percentage = given[1].percentage

\* A mapping key equal to the name, and the keys related to it by substring
\* containment in either direction, read from the table as declared.
MappingKeys == DOMAIN stageMapping

KeyOf(k) == stageMapping[k][1]

BucketOf(k) == stageMapping[k][2]

ExactKeys(n) == { k \in MappingKeys : KeyOf(k) = n }

Related ==
  [n \in RawNames |->
     { k \in MappingKeys : includes(n, KeyOf(k)) \/ includes(KeyOf(k), n) }]

RelatedKeys(n) == Related[n]

\* Input stage j was put in the bucket named b: the output has a stage of
\* that name, which is the whole output when j is the only input stage.
InBucket(j, b) ==
  /\ \E i \in Outputs : Out(i).name = b /\ Out(i).count >= given[j].count
  /\ Len(given) = 1 => Len(consolidatedStages) = 1 /\ Out(1).name = b

\* C4: a name that is a mapping key goes to that key's value; otherwise a
\* name that contains a key or is contained in one goes to the value of such
\* a key.  "Stripe Redirect Page" goes to "Stripe Checkout"; "Started" and
\* "Plan Selected" go to "Plan Selected".
C4_Resolution ==
  Aggregated =>
    \A j \in Inputs :
      /\ \A k \in ExactKeys(given[j].name) : InBucket(j, BucketOf(k))
      /\ (ExactKeys(given[j].name) = {} /\ RelatedKeys(given[j].name) # {})
           => \E k \in RelatedKeys(given[j].name) : InBucket(j, BucketOf(k))
      /\ given[j].name = "Stripe Redirect Page"
           => InBucket(j, "Stripe Checkout")
      /\ given[j].name \in { "Started", "Plan Selected" }
           => InBucket(j, "Plan Selected")

\* C4 witness: "Stripe Redirect Page" alone came out as "Stripe Checkout",
\* and so did "Start", which a key contains, as "Plan Selected".
C4_Witness ==
  /\ Aggregated
  /\ Len(given) = 2
  /\ given[1].name = "Stripe Redirect Page"
  /\ given[2].name = "Start"
  /\ Len(consolidatedStages) = 2
  /\ Out(1).name = "Stripe Checkout"
  /\ Out(2).name = "Plan Selected"

\* C5: a stage whose name is no mapping key, contains none and is contained
\* in none is output under its own name, and alone it is the whole output
\* with its count, its percentage and dropoff 0.
C5_PassThrough ==
  Aggregated =>
    \A j \in Inputs :
      RelatedKeys(given[j].name) = {} =>
        /\ \E i \in Outputs : Out(i).name = given[j].name
        /\ Len(given) = 1 =>
             /\ Len(consolidatedStages) = 1
             /\ Out(1) = [given[1] EXCEPT !.dropoff = << 0 >>]

\* The fixed canonical vocabulary.
CanonicalNames ==
  { "Button Clicks", "Plan Selected", "Account Setup", "Stripe Checkout",
    "Provisioned" }

\* C6 as stated: every output name belongs to the canonical vocabulary.
C6_OnlyCanonicalNames ==
  Aggregated => \A i \in Outputs : Out(i).name \in CanonicalNames

\* C6 as amended: every output name belongs to the canonical vocabulary or
\* comes from an input stage that no mapping key matches: it is that stage's
\* own name or, when Object.prototype has a property of that name, the
\* inherited value.
C6_CanonicalOrUnmatched ==
  Aggregated =>
    \A i \in Outputs :
      \/ Out(i).name \in CanonicalNames
      \/ \E j \in Inputs :
           /\ RelatedKeys(given[j].name) = {}
           /\ Out(i).name =
                IF Inherited(given[j].name)
                  THEN Lookup(<< >>, given[j].name)[1]
                  ELSE given[j].name

\* C6 witness: an output stage named "Custom Step", outside the vocabulary,
\* next to a canonical one.
C6_Witness ==
  /\ Aggregated
  /\ Len(consolidatedStages) = 2
  /\ Out(1).name = "Stripe Checkout"
  /\ Out(2).name = "Custom Step"

\* C7: no two stages of the output have the same name.
C7_UniqueNames ==
  Aggregated =>
    \A i \in Outputs : \A j \in Outputs :
      i # j => Out(i).name # Out(j).name

\* C7 witness: a duplicate raw name and a second raw name of the same bucket
\* came out as one stage.
C7_Witness ==
  /\ Aggregated
  /\ Len(given) = 3
  /\ given[1].name = "Started"
  /\ given[2].name = "Plan Selected"
  /\ given[3].name = "Started"
  /\ Len(consolidatedStages) = 1
  /\ Out(1).name = "Plan Selected"

\* C8: after the call the input array has the same elements in the same
\* order and every input object has the fields it had.
C8_InputUnchanged ==
  pc = "rendered" =>
    /\ stages # << >> => stages[1] = [j \in Inputs |-> j]
    /\ \A j \in Inputs : heap[j] = given[j]

\* C8 witness: an input stage "Started" carrying a dropoff was renamed and
\* given a new drop-off in the output, and is itself as it was.
C8_Witness ==
  /\ Aggregated
  /\ Len(given) = 2
  /\ given[2].name = "Started"
  /\ given[2].dropoff = << 99 >>
  /\ Len(consolidatedStages) = 2
  /\ Out(2).name = "Plan Selected"
  /\ Out(2).dropoff = << 1 >>
  /\ heap[2] = given[2]

\* C9: the render never reads the first or last element of an empty result:
\* the aggregator maps [] to [], missing or empty stages give the empty
\* state with nothing indexed, and a non-empty input gives a non-empty
\* result whose first and last elements are defined.
C9_NoReadOfEmptyResult ==
  /\ consolidateStages(<< >>, << >>).result = << >>
  /\ view # "TypeError"
  /\ (pc = "rendered" /\ (stages = << >> \/ stages = << << >> >>)) =>
       /\ view = "empty"
       /\ consolidatedStages = << >>
       /\ firstStage = << >>
       /\ lastStage = << >>
  /\ (pc = "rendered" /\ stages # << >> /\ stages # << << >> >>) =>
       /\ view = "funnel"
       /\ Len(consolidatedStages) >= 1
       /\ firstStage = << consolidatedStages[1] >>
       /\ lastStage = << consolidatedStages[Len(consolidatedStages)] >>

\* C9 witness: an empty stages array was rendered as the empty state.
C9_Witness ==
  /\ pc = "rendered"
  /\ stages = << << >> >>
  /\ view = "empty"

\* C10: for a non-empty input the output is no longer than the number of
\* distinct buckets the input names resolve to, and no longer than the input.
C10_LengthBound ==
  (Aggregated /\ Len(given) >= 1) =>
    /\ Len(consolidatedStages)
         <= Cardinality({ Bucket[given[j].name] : j \in Inputs })
    /\ Len(consolidatedStages) <= Len(given)

\* C10 witness: three input stages of two buckets, the later stage of the
\* shared bucket replacing the earlier one, came out as two stages.
C10_Witness ==
  /\ Aggregated
  /\ Len(given) = 3
  /\ Bucket[given[1].name] = Bucket[given[2].name]
  /\ Bucket[given[1].name] # Bucket[given[3].name]
  /\ given[1].count < given[2].count
  /\ Len(consolidatedStages) = 2

\* C11: running the aggregator again on its own output returns stages with
\* the same set of names as the output.
C11_Idempotent ==
  Aggregated =>
    \A again \in { consolidateAgain(heap, consolidatedStages) } :
      /\ ~again.threw
      /\ again.names = { Out(i).name : i \in Outputs }

\* C13 as stated: every dropoff of the output is a non-negative integer.
C13_DropoffNonNegative ==
  Aggregated =>
    \A i \in Outputs : Out(i).dropoff # << >> /\ Out(i).dropoff[1] \in Nat

\* The input counts follow the percentages: a stage with a percentage at
\* least as high as another's has a count at least as high.
CountsFollowPercentages ==
  \A j \in Inputs : \A k \in Inputs :
    given[j].percentage >= given[k].percentage
      => given[j].count >= given[k].count

\* C13 as amended: every dropoff of the output is an integer, and it is
\* non-negative when the input counts follow the percentages.
C13_DropoffNonNegativeWhenOrdered ==
  Aggregated =>
    \A i \in Outputs :
      /\ Out(i).dropoff # << >>
      /\ Out(i).dropoff[1] \in Int
      /\ CountsFollowPercentages => Out(i).dropoff[1] \in Nat

\* C13 witness: a funnel of three buckets whose counts follow the
\* percentages, with positive drop-offs.
C13_Witness ==
  /\ Aggregated
  /\ CountsFollowPercentages
  /\ Len(consolidatedStages) = 3
  /\ Out(2).dropoff = << 1 >>
  /\ Out(3).dropoff = << 1 >>

\* C18: a name that is no mapping key and is substring-related to several
\* keys goes to the value of the earliest of them in the declared order; a
\* name containing both "Started" and "Provisioned" goes to "Plan
\* Selected"; a name that is a key goes to that key's value whatever other
\* keys it is related to.
C18_EarliestRelatedKey ==
  Aggregated =>
    \A j \in Inputs :
      /\ (ExactKeys(given[j].name) = {} /\ RelatedKeys(given[j].name) # {})
           => InBucket(j, BucketOf(Min(RelatedKeys(given[j].name))))
      /\ given[j].name = "Started Provisioned"
           => /\ RelatedKeys(given[j].name) = { 2, 7 }
              /\ InBucket(j, "Plan Selected")
      /\ \A k \in ExactKeys(given[j].name) : InBucket(j, BucketOf(k))

\* C18 witness: "Started Provisioned" alone, related to the second and the
\* seventh key, came out as "Plan Selected".
C18_Witness ==
  /\ Aggregated
  /\ Len(given) = 1
  /\ given[1].name = "Started Provisioned"
  /\ Len(consolidatedStages) = 1
  /\ Out(1).name = "Plan Selected"

\* C14: an input with exactly one stage for each of the seven mapping keys
\* comes out as exactly five stages, named Button Clicks, Plan Selected,
\* Account Setup, Stripe Checkout and Provisioned.
C14_SevenToFive ==
  (/\ Aggregated
   /\ Len(given) = 7
   /\ \A k \in MappingKeys :
        Cardinality({ j \in Inputs : given[j].name = KeyOf(k) }) = 1)
    => /\ Len(consolidatedStages) = 5
       /\ { Out(i).name : i \in Outputs } = CanonicalNames

\* C14 witness: the seven keys, reported in the reverse of the declared
\* order, came out as five stages.
C14_Witness ==
  /\ Aggregated
  /\ Len(given) = 7
  /\ \A j \in Inputs : given[j].name = KeyOf(8 - j)
  /\ Len(consolidatedStages) = 5
  /\ Out(1).name = "Provisioned"
  /\ Out(5).name = "Button Clicks"

\* C12: the numbers the render computes for a row are finite whatever the
\* counts: the drop-off rate, the stage-to-stage conversion rate and, when
\* the previous period has a stage of the same name, the change against it.
C12_NoDivisionByZero ==
  Aggregated =>
    \A i \in DOMAIN rows :
      /\ IsFinite(rows[i].dropoffRate)
      /\ IsFinite(rows[i].stageConversionRate)
      /\ rows[i].stageChange # << >>
           => IsFinite(rows[i].stageChange[1].change)

\* C15: on every row but the last the drop-off count is the count of the
\* row's stage minus the count of the next stage, and the drop-off rate is
\* that count as a percentage of the row's count.
C15_DropoffToNextStage ==
  Aggregated =>
    \A i \in DOMAIN rows :
      (~rows[i].isLast) =>
        /\ rows[i].dropoffCount = Out(i).count - Out(i + 1).count
        /\ Out(i).count > 0 =>
             rows[i].dropoffRate.num * Out(i).count
               = 100 * (Out(i).count - Out(i + 1).count)
                   * rows[i].dropoffRate.den

\* The login requests among the requests sent, and the body of one.
LoginRequests == { i \in DOMAIN requests : requests[i].path = LoginPath }

Body(i) == requests[i].data[1]

\* C16: every login request sent carries a non-empty email, password and
\* Turnstile token, and no two login requests carry the same Turnstile
\* token.
C16_LoginNeedsFreshTurnstileToken ==
  /\ \A i \in LoginRequests :
       /\ Body(i).email # ""
       /\ Body(i).password # ""
       /\ Body(i).turnstileToken # ""
  /\ \A i \in LoginRequests : \A j \in LoginRequests :
       i # j => Body(i).turnstileToken # Body(j).turnstileToken

\* C17: the base URL of the API client is the page's origin (protocol, "//",
\* hostname) when the hostname is admin.forge-itsm.com, and the fixed backend
\* URL for every other hostname and when there is no window.
C17_BaseUrlByHostname ==
  baseURL # << >> =>
    IF window # << >> /\ window[1].hostname = "admin.forge-itsm.com"
      THEN baseURL = << window[1].protocol \o "//admin.forge-itsm.com" >>
      ELSE baseURL = << "https://itsm-backend.joshua-r-klimek.workers.dev" >>

\* C17 witness: the app served from the production hostname over http got
\* that origin as base URL.
C17_Witness ==
  /\ window # << >>
  /\ window[1].hostname = "admin.forge-itsm.com"
  /\ window[1].protocol = "http:"
  /\ baseURL = << "http://admin.forge-itsm.com" >>

\* C19: a protected page is on screen only when isLoading is false and an
\* admin is set; at the path of a protected page the screen is the loading
\* placeholder while isLoading is true, and the redirect to "/" when
\* isLoading is false and no admin is set.
C19_ProtectedPagesNeedSession ==
  /\ Screen.element \in ProtectedPages => (~isLoading /\ admin # << >>)
  /\ \A k \in DOMAIN ChildRoutes :
       pathname = ChildRoutes[k][1] =>
         /\ isLoading => Screen = [element |-> "Loading", to |-> ""]
         /\ (~isLoading /\ admin = << >>)
              => Screen = [element |-> "Navigate", to |-> "/"]

\* C19 witness: the dashboard on screen after the stored session was
\* restored.
C19_Witness ==
  /\ pathname = "/dashboard"
  /\ Screen.element = "DashboardPage"
  /\ ~isLoading
  /\ admin # << >>
  /\ requests = << >>

BothKeys(storage) == storage.adminToken # << >> /\ storage.adminUser # << >>

NoKeys(storage) == storage.adminToken = << >> /\ storage.adminUser = << >>

\* C20: once a redirect that was started has completed, an authenticated
\* app has both keys in localStorage; the step that starts the redirect of a
\* logout or of a 401 leaves both keys absent; absent keys come back only by
\* a login response that succeeds; and a request sent while the keys are
\* absent carries no Authorization header.
C20_SessionMatchesStorage ==
  /\ []((~unloading /\ admin # << >>) => BothKeys(localStorage))
  /\ [][(~unloading /\ unloading') => NoKeys(localStorage')]_vars
  /\ [][(NoKeys(localStorage) /\ ~NoKeys(localStorage'))
         => /\ BothKeys(localStorage')
            /\ admin' # << >>
            /\ \E i \in LoginRequests :
                 requests[i].pending /\ ~requests'[i].pending]_vars
  /\ [][(NoKeys(localStorage) /\ Len(requests') > Len(requests))
         => requests'[Len(requests')].authorization = << >>]_vars

\* C20 witness: a request was sent with the session's token, the session
\* ended by a logout or a 401, and after the reload a login request went out
\* without an Authorization header.
C20_Witness ==
  /\ ~unloading
  /\ admin = << >>
  /\ NoKeys(localStorage)
  /\ Len(requests) = 2
  /\ requests[1].path # LoginPath
  /\ requests[1].authorization # << >>
  /\ requests[2].path = LoginPath
  /\ requests[2].authorization = << >>

\* The response of request i has just been handled by this step.
Answered(i) == requests[i].pending /\ requests'[i].response # << >>

Succeeded(response) == response.status = 200 /\ response.success

\* C21: the step that handles the response of a login request either gets
\* success = true, and then login does not throw, both keys are written and
\* the admin is set; or it gets anything else, and then login throws and
\* localStorage and the admin state are as they were before the step.
C21_LoginAllOrNothing ==
  [][\A i \in LoginRequests :
       Answered(i) =>
         IF Succeeded(requests'[i].response[1])
           THEN /\ ~requests'[i].rejected
                /\ localStorage'.adminToken = << "jwt-issued" >>
                /\ localStorage'.adminUser # << >>
                /\ JSONparse(localStorage'.adminUser[1]).value = admin'
                /\ admin' # << >>
           ELSE /\ requests'[i].rejected
                /\ localStorage' = localStorage
                /\ admin' = admin]_vars

\* C22: the step that handles a failed response rejects the error to the
\* caller; with status 401 it leaves both keys absent and starts the redirect,
\* with any other status or no response it leaves localStorage as it was and
\* starts no redirect; and a redirect that completes ends at "/".
C22_Only401EndsSession ==
  /\ [][\A i \in DOMAIN requests :
          (Answered(i) /\ IsError(requests'[i].response[1])) =>
            /\ requests'[i].rejected
            /\ IF requests'[i].response[1].status = 401
                 THEN NoKeys(localStorage') /\ unloading'
                 ELSE localStorage' = localStorage /\ unloading' = unloading]_vars
  /\ [][(unloading /\ ~unloading') => pathname' = "/"]_vars

\* C22 witness: a request of a protected page that was sent with the stored
\* token got a 401: it was rejected, both keys are gone and the redirect is
\* under way; an earlier request got a 500 without ending the session.
C22_Witness ==
  /\ Len(requests) = 2
  /\ requests[1].response # << >>
  /\ requests[1].response[1].status = 500
  /\ requests[2].path # LoginPath
  /\ requests[2].authorization # << >>
  /\ requests[2].response # << >>
  /\ requests[2].response[1].status = 401
  /\ requests[2].rejected
  /\ NoKeys(localStorage)
  /\ unloading
  /\ pathname = "/analytics"

\* The texts that are JSON, among those localStorage can hold.
IsJSON(text) ==
  text = "null" \/ \E user \in AdminUsers : text = "{\"email\":\"" \o user.email \o "\"}"

HoldsBoth(storage) ==
  /\ storage.adminToken # << >> /\ storage.adminToken[1] # ""
  /\ storage.adminUser # << >> /\ storage.adminUser[1] # ""

\* C23: the step of the session check on start sets an admin only if
\* localStorage holds both an adminToken and an adminUser that is JSON; if
\* both are held and adminUser is no JSON, both keys are removed and no admin
\* is set; in every other case localStorage is left as it is; and in every
\* case isLoading becomes false.
C23_RestoreOnStart ==
  /\ [][(isLoading /\ ~isLoading') =>
          /\ admin' # << >> =>
               /\ HoldsBoth(localStorage)
               /\ IsJSON(localStorage.adminUser[1])
               /\ admin'[1].email \in { "admin@example.com" }
          /\ IF HoldsBoth(localStorage) /\ ~IsJSON(localStorage.adminUser[1])
               THEN NoKeys(localStorage') /\ admin' = << >>
               ELSE localStorage' = localStorage
          /\ (HoldsBoth(localStorage)
                /\ localStorage.adminUser[1] \notin { "null", "not json" })
               => admin' # << >>]_vars
  /\ isLoading ~> ~isLoading

\* C23 witness: on the login page the stored session has just been restored:
\* the admin is set from the stored user, nothing else has happened yet.
C23_Witness ==
  /\ pathname = "/"
  /\ ~isLoading
  /\ admin # << >>
  /\ localStorage.adminToken = << "jwt-stored" >>
  /\ requests = << >>
  /\ ~unloading

\* A redirect is rendered and has not been followed yet.
RedirectPending ==
  /\ ~isLoading
  /\ \/ Screen.element = "Navigate"
     \/ Screen.element = "LoginPage" /\ admin # << >>

\* The number of redirects still ahead of a visitor at the current location.
RedirectsLeft ==
  IF admin = << >>
    THEN IF pathname = "/" THEN 0
         ELSE IF \E k \in DOMAIN ChildRoutes : ChildRoutes[k][1] = pathname
           THEN 1 ELSE 2
    ELSE IF \E k \in DOMAIN ChildRoutes : ChildRoutes[k][1] = pathname
           THEN 0 ELSE 1

\* C24: once isLoading is false every redirect that is followed brings the
\* visitor one step closer to the end of the chain (so no location is visited
\* twice), a visitor with no admin set ends on the login page at "/", and a
\* visitor with an admin set who is at "/" or at a path no route matches
\* ends on "/dashboard".
C24_RedirectsTerminate ==
  /\ [][(RedirectPending /\ ~isLoading' /\ unloading' = unloading
           /\ pathname' # pathname)
          => RedirectsLeft' < RedirectsLeft]_vars
  /\ [](RedirectPending => RedirectsLeft > 0)
  /\ (~isLoading /\ ~unloading /\ admin = << >>)
       ~> (pathname = "/" /\ Screen.element = "LoginPage" /\ admin = << >>)
  /\ (~isLoading /\ ~unloading /\ admin # << >>
        /\ pathname \in { "/", "/nowhere" })
       ~> (pathname = "/dashboard" /\ Screen.element = "DashboardPage"
             /\ admin # << >>)

\* C24 witness: a visitor without a session is at "/dashboard", opened
\* directly or reached from the catch-all route, and PrivateRoute has
\* rendered the redirect to "/": one redirect is left.
C24_Witness ==
  /\ pathname = "/dashboard"
  /\ ~isLoading
  /\ ~unloading
  /\ admin = << >>
  /\ Screen = [element |-> "Navigate", to |-> "/"]
  /\ RedirectsLeft = 1

\* The url of the list request for the filters selected now.
CurrentUrl ==
  IF page = "DashboardPage"
    THEN "/api/admin/tenants?"
           \o (IF searchQuery # "" THEN "search=" \o searchQuery ELSE "")
           \o (IF searchQuery # "" /\ (statusFilter # "all" \/ planFilter # "all")
                 THEN "&" ELSE "")
           \o (IF statusFilter # "all" THEN "status=" \o statusFilter ELSE "")
           \o (IF statusFilter # "all" /\ planFilter # "all" THEN "&" ELSE "")
           \o (IF planFilter # "all" THEN "plan=" \o planFilter ELSE "")
    ELSE "/api/admin/contacts?"
           \o (IF statusFilter # "all" THEN "status=" \o statusFilter ELSE "")

\* C26: every list request the interval timer issues is the request for the
\* filters selected when the timer fires, and a response to a request of the
\* timer never replaces the list by the list of other filters than those
\* selected.
C26_AutoRefreshKeepsFilters ==
  [][/\ \A request \in inflight' \ inflight :
          request.by = "interval" => request.url = CurrentUrl
     /\ \A request \in inflight \ inflight' :
          (request.by = "interval"
             /\ << tenants', contacts' >> # << tenants, contacts >>)
            => request.url = CurrentUrl]_vars

\* C25: a DELETE request is sent only for the tenant of the open modal, in
\* 'hard' mode, with the typed text equal to that tenant's subdomain; in
\* 'soft' mode the only delete request sent is the soft-delete POST of that
\* tenant; the confirmation text is empty whenever the modal is closed, and
\* so whenever it opens; with a Modal that blocks the page behind it, the
\* text is empty whenever the modal comes to show another tenant.
C25_HardDeleteNeedsConfirmation ==
  /\ [][\A request \in inflight' \ inflight :
          /\ request.method = "DELETE" =>
               /\ deleteModal.isOpen
               /\ deleteModal.type = "hard"
               /\ deleteModal.tenant # << >>
               /\ confirmText = deleteModal.tenant[1]
               /\ request.url = "/api/admin/tenants/" \o confirmText
          /\ (request.method # "GET" /\ deleteModal.type = "soft") =>
               /\ deleteModal.isOpen
               /\ request.method = "POST"
               /\ request.url
                    = "/api/admin/tenants/" \o deleteModal.tenant[1]
                        \o "/soft-delete"]_vars
  /\ [](~deleteModal.isOpen => (confirmText = "" /\ deleteModal.tenant = << >>))
  /\ [][(~deleteModal.isOpen /\ deleteModal'.isOpen) => confirmText' = ""]_vars
  /\ [][(modalBlocks /\ deleteModal'.isOpen
           /\ deleteModal'.tenant # deleteModal.tenant)
          => confirmText' = ""]_vars

\* C25 witness: the permanent deletion of "acme" is in flight, sent from the
\* modal in 'hard' mode with "acme" typed.
C25_Witness ==
  /\ deleteModal = [isOpen |-> TRUE, tenant |-> << "acme" >>, type |-> "hard"]
  /\ confirmText = "acme"
  /\ \E request \in inflight :
       request.method = "DELETE" /\ request.url = "/api/admin/tenants/acme"
  /\ ~buttonDisables

C28_SessionRequestsSettle ==
  <>[](\A request \in pending : request.fetch # "fetchSessions")

\* The number of the local calendar day an ISO timestamp falls on, counted
\* from January 1 of 2020, and the millisecond of that day.
RECURSIVE DaysBeforeYear(_)
DaysBeforeYear(year) ==
  IF year <= 2020 THEN 0
  ELSE DaysBeforeYear(year - 1)
         + (IF ((year - 1) % 4 = 0 /\ (year - 1) % 100 # 0)
                 \/ (year - 1) % 400 = 0
              THEN 366 ELSE 365)

RECURSIVE DaysBeforeMonth(_, _)
DaysBeforeMonth(year, month) ==
  IF month <= 1 THEN 0
  ELSE DaysBeforeMonth(year, month - 1)
         + (IF month - 1 = 2
              THEN (IF (year % 4 = 0 /\ year % 100 # 0) \/ year % 400 = 0
                      THEN 29 ELSE 28)
              ELSE IF month - 1 \in { 4, 6, 9, 11 } THEN 30 ELSE 31)

UtcMs(iso) ==
  [day |-> DaysBeforeYear(iso.year) + DaysBeforeMonth(iso.year, iso.month)
             + iso.date,
   ms  |-> iso.ms]

LocalMs(iso) ==
  IF UtcMs(iso).ms - timezoneOffset * 60000 < 0
    THEN [day |-> UtcMs(iso).day - 1,
          ms  |-> UtcMs(iso).ms - timezoneOffset * 60000 + 86400000]
    ELSE IF UtcMs(iso).ms - timezoneOffset * 60000 >= 86400000
      THEN [day |-> UtcMs(iso).day + 1,
            ms  |-> UtcMs(iso).ms - timezoneOffset * 60000 - 86400000]
      ELSE [day |-> UtcMs(iso).day,
            ms  |-> UtcMs(iso).ms - timezoneOffset * 60000]

Today ==
  DaysBeforeYear(now.year) + DaysBeforeMonth(now.year, now.month) + now.date

\* C29: both periods run from the first to the last millisecond of a local
\* day; the current one ends today and has as many days as the date range
\* (one for Today); the previous one has as many days, ends on the day
\* before the current one starts, before the instant at which the current
\* one starts, and for Today is yesterday.
C29_PreviousPeriodAdjoins ==
  (currentPeriod # << >> /\ previousPeriod # << >>) =>
    /\ LocalMs(currentPeriod[1].startDate).ms = 0
    /\ LocalMs(previousPeriod[1].startDate).ms = 0
    /\ LocalMs(currentPeriod[1].endDate).ms = 86399999
    /\ LocalMs(previousPeriod[1].endDate).ms = 86399999
    /\ LocalMs(currentPeriod[1].endDate).day = Today
    /\ LocalMs(currentPeriod[1].endDate).day
         - LocalMs(currentPeriod[1].startDate).day + 1
         = (IF dateRange = 0 THEN 1 ELSE dateRange)
    /\ LocalMs(previousPeriod[1].endDate).day
         - LocalMs(previousPeriod[1].startDate).day
         = LocalMs(currentPeriod[1].endDate).day
             - LocalMs(currentPeriod[1].startDate).day
    /\ LocalMs(previousPeriod[1].endDate).day + 1
         = LocalMs(currentPeriod[1].startDate).day
    /\ \/ UtcMs(previousPeriod[1].endDate).day
            < UtcMs(currentPeriod[1].startDate).day
       \/ /\ UtcMs(previousPeriod[1].endDate).day
              = UtcMs(currentPeriod[1].startDate).day
          /\ UtcMs(previousPeriod[1].endDate).ms
              < UtcMs(currentPeriod[1].startDate).ms
    /\ dateRange = 0 =>
         /\ LocalMs(previousPeriod[1].startDate).day = Today - 1
         /\ LocalMs(previousPeriod[1].endDate).day = Today - 1

\* C29 witness: on March 1 of a leap year, in US Central time, the 90-day
\* range starts on December 3 and the previous period runs from September 4
\* to December 2 of the year before.
C29_Witness ==
  /\ now = [year |-> 2024, month |-> 3, date |-> 1, ms |-> 43200000]
  /\ timezoneOffset = 360
  /\ dateRange = 90
  /\ currentPeriod
       = << [startDate |-> [year |-> 2023, month |-> 12, date |-> 3,
                            ms |-> 21600000],
             endDate   |-> [year |-> 2024, month |-> 3, date |-> 2,
                            ms |-> 21599999]] >>
  /\ previousPeriod
       = << [startDate |-> [year |-> 2023, month |-> 9, date |-> 4,
                            ms |-> 21600000],
             endDate   |-> [year |-> 2023, month |-> 12, date |-> 3,
                            ms |-> 21599999]] >>


====
